---------------------------- MODULE Spec2Model ----------------------------
(***************************************************************************)
(* A model of the supervisory control loop of the IDS pipeline agent:      *)
(* the shared state store (a multiprocessing.Manager dict), the resource   *)
(* controller (resource_controller.py), the asynchronous connectivity      *)
(* checker with its retry executor (connectivity_async.py), the Docker     *)
(* stack health probe (docker_manager.py), the Vector health check         *)
(* (vector_manager.py) and the metrics exporter (metrics_server.py).       *)
(***************************************************************************)
EXTENDS Integers, Sequences, FiniteSets, TLC

VARIABLES
    shared_state,      \* the Manager dict: a function from the present keys to values
    cpu_limit,         \* ResourceController.cpu_limit
    ram_limit,         \* ResourceController.ram_limit
    throttling_level,  \* ResourceController.throttling_level (multiprocessing.Value)
    rc_pc,             \* position of ResourceController.run
    rc_cpu,            \* local cpu_usage of run
    rc_ram,            \* local ram_usage of run
    opensearch_endpoint, \* ConnectivityAsync.opensearch_endpoint ("" when not configured)
    conn_pc,           \* position of ConnectivityAsync.run_connectivity_checks
    tasks,             \* the checks launched in the current cycle
    retries,           \* per task: local retries of _retry_operation
    status,            \* per task: "idle", "pending", "returned" or "raised"
    result,            \* per task: what _retry_operation handed to gather
    calls,             \* per task: calls of the wrapped check made by this invocation
    waits,             \* per task: the backoff sleeps of this invocation, in order
    last_input,        \* per task: what the network did in the latest call
    last_outcome,      \* per task: what the latest call of the check returned or raised
    conn,              \* per task: the connection of the latest call
    dk_pc,             \* position of DockerManager.check_stack_health
    containers,        \* per required service: what the Docker daemon answers
    daemon_ok,         \* whether the ping of the current call succeeded
    service_index,     \* position of the for loop in required_services
    all_healthy,       \* local all_healthy of check_stack_health
    queried,           \* the services queried by the current call, in order
    dk_result,         \* what the latest call of check_stack_health returned
    vh_pc,             \* position of VectorManager.check_vector_health
    vh_read,           \* what shared_state.get('docker_healthy', False) returned to the call
    vh_present,        \* whether docker_healthy was in the store at that read
    vh_result,         \* what the latest call of check_vector_health returned
    dh_written,        \* docker_healthy was written since the read of the running call
    ms_pc,             \* position of MetricsServer.run: the store key read next
    gauges,            \* per gauge of MetricsServer: the value it exposes
    counters,          \* per counter of MetricsServer: the value it exposes
    sampled,           \* history: the controller has taken a sample
    prev_cpu,          \* history: the cpu reading of the preceding tick (-1: none)
    prev_ram,          \* history: the ram reading of the preceding tick (-1: none)
    first_cpu,         \* history: the cpu reading of the first tick (-1: none)
    first_ram,         \* history: the ram reading of the first tick (-1: none)
    first_level,       \* history: the level the first tick published (-1: none)
    config,            \* ConfigManager.config: the in-memory document
    config_file,       \* the file at config_path: its state and its document
    rl_pc,             \* position of ConfigManager.reload_config
    rl_loaded,         \* what _load_config returned to reload_config
    gt_pc,             \* position of a ConfigManager.get
    gt_key,            \* the segments of the key of that get
    gt_doc,            \* the document that get took from self.config
    gt_depth,          \* the number of segments that get has resolved
    gt_result,         \* what the latest get returned
    aws_pc,            \* "none", "ready" or "construct_failed": the AWSManager instance
    aws_region,        \* AWSManager.aws_region
    aws_endpoint,      \* AWSManager.opensearch_endpoint
    aws_session,       \* "none" or "created": AWSManager.session and its client
    aws_op,            \* the latest AWSManager operation and what it returned
    sb_pc,             \* position of AWSManager.send_bulk_to_opensearch
    sb_retries,        \* local retries of send_bulk_to_opensearch
    sb_calls,          \* calls of client.bulk made by the current invocation
    sb_waits,          \* the backoff sleeps of the current invocation, in order
    sb_last,           \* what the latest call of client.bulk did
    sb_result,         \* what the latest send_bulk_to_opensearch handed to its caller
    eve,               \* the lines of the EVE log file, oldest first (their kinds)
    eve_exists,        \* log_path.exists()
    sm_running,        \* SuricataLogMonitor._running
    sm_position,       \* SuricataLogMonitor._position, in whole lines
    sm_starts,         \* calls of start() made
    sm_stopped,        \* stop() has returned
    ta_pc,             \* where the tail_alerts generator stands
    ta_i,              \* the line of the batch the generator is at
    ta_tell,           \* f.tell() of the batch read last: the end of the file at that read
    yielded,           \* the lines whose alert event tail_alerts has yielded, in order
    start_size,        \* the length of the file when start() took effect
    stop_len,          \* how many events had been yielded when stop() returned
    ra_pc,             \* get_recent_alerts: "idle" or "returned"
    ra_limit,          \* the limit of the latest get_recent_alerts
    ra_file,           \* the lines the latest get_recent_alerts read
    ra_result          \* the lines of the alerts it returned, in the order returned

rcVars == <<cpu_limit, ram_limit, throttling_level, rc_pc, rc_cpu, rc_ram>>
connVars == <<opensearch_endpoint, conn_pc, tasks, retries, status, result, calls,
              waits, last_input, last_outcome, conn>>
dockerVars == <<dk_pc, containers, daemon_ok, service_index, all_healthy, queried, dk_result>>
vectorVars == <<vh_pc, vh_read, vh_present, vh_result, dh_written>>
metricsVars == <<ms_pc, gauges, counters>>
tickVars == <<sampled, prev_cpu, prev_ram, first_cpu, first_ram, first_level>>
configVars == <<config, config_file, rl_pc, rl_loaded, gt_pc, gt_key, gt_doc, gt_depth, gt_result>>
awsVars == <<aws_pc, aws_region, aws_endpoint, aws_session, aws_op,
             sb_pc, sb_retries, sb_calls, sb_waits, sb_last, sb_result>>
suricataVars == <<eve, eve_exists, sm_running, sm_position, sm_starts, sm_stopped,
                  ta_pc, ta_i, ta_tell, yielded, start_size, stop_len,
                  ra_pc, ra_limit, ra_file, ra_result>>
vars == <<shared_state, rcVars, connVars, dockerVars, vectorVars, metricsVars,
          tickVars, configVars, awsVars, suricataVars>>

(***************************************************************************)
(* The shared state store.  A key that was never written is not in the     *)
(* DOMAIN of the dict.                                                     *)
(***************************************************************************)
EmptyStore == [k \in {} |-> FALSE]

\* A write that replaces the whole dict by the one item.
StoreSetReplacesDict(d, k, v) == [x \in {k} |-> v]

StoreSet(d, k, v) == [x \in (DOMAIN d) \cup {k} |-> IF x = k THEN v ELSE d[x]]

\* A read that never sees what was written.
StoreGetIgnoresWrites(d, k, default) == default

StoreGet(d, k, default) == IF k \in DOMAIN d THEN d[k] ELSE default

(***************************************************************************)
(* Bounds of the model and constants of the program.                       *)
(***************************************************************************)
DefaultLimit == 70
ModerateOffset == 5
SevereOffset == 10
LimitSpread == 1
SampleMargin == 1

Limits == (DefaultLimit - LimitSpread) .. DefaultLimit

Samples == {0} \cup ((DefaultLimit - LimitSpread) .. (DefaultLimit + SevereOffset + SampleMargin))

HighSample == DefaultLimit + SevereOffset + SampleMargin

CoarseSamples == {0, HighSample}

(***************************************************************************)
(* ResourceController._apply_throttling: the level, as the nested          *)
(* conditionals of the code compute it.                                    *)
(***************************************************************************)
ThrottlingLevelOffByOne(cpu_usage, ram_usage, cl, rl) ==
    IF cpu_usage >= cl \/ ram_usage >= rl
    THEN IF cpu_usage >= (cl + SevereOffset) \/ ram_usage >= (rl + SevereOffset)
         THEN 3
         ELSE IF cpu_usage >= (cl + ModerateOffset) \/ ram_usage >= (rl + ModerateOffset)
              THEN 2
              ELSE 1
    ELSE 0

\* A level that is severe only while exactly one of the two readings is severe.
ThrottlingLevelSevereXor(cpu_usage, ram_usage, cl, rl) ==
    IF cpu_usage > cl \/ ram_usage > rl
    THEN IF (cpu_usage > (cl + SevereOffset)) # (ram_usage > (rl + SevereOffset))
         THEN 3
         ELSE IF cpu_usage > (cl + ModerateOffset) \/ ram_usage > (rl + ModerateOffset)
              THEN 2
              ELSE 1
    ELSE 0

CurrentThrottlingLevel(cpu_usage, ram_usage, cl, rl) ==
    IF cpu_usage > cl \/ ram_usage > rl
    THEN IF cpu_usage > (cl + SevereOffset) \/ ram_usage > (rl + SevereOffset)
         THEN 3
         ELSE IF cpu_usage > (cl + ModerateOffset) \/ ram_usage > (rl + ModerateOffset)
              THEN 2
              ELSE 1
    ELSE 0

(***************************************************************************)
(* ResourceController.run, one step per statement of the loop body.        *)
(***************************************************************************)
RCInit ==
    /\ cpu_limit \in Limits
    /\ ram_limit \in Limits
    /\ throttling_level = 0
    /\ rc_pc = "sample"
    /\ rc_cpu = 0
    /\ rc_ram = 0

RCIdle ==
    /\ cpu_limit = DefaultLimit
    /\ ram_limit = DefaultLimit
    /\ throttling_level = 0
    /\ rc_pc = "off"
    /\ rc_cpu = 0
    /\ rc_ram = 0

\* cpu_usage, ram_usage = self._get_system_metrics(), the readings drawn from S.
GetSystemMetricsFrom(S) ==
    /\ rc_pc = "sample"
    /\ \E c \in S, r \in S :
          /\ rc_cpu' = c
          /\ rc_ram' = r
    /\ rc_pc' = "write_cpu"
    /\ UNCHANGED <<shared_state, cpu_limit, ram_limit, throttling_level, connVars, dockerVars, vectorVars, metricsVars,
                   configVars, awsVars, suricataVars>>

GetSystemMetrics == GetSystemMetricsFrom(Samples) /\ UNCHANGED tickVars

\* The same step when the controller runs beside other workers: the two extreme readings.
GetSystemMetricsCoarse == GetSystemMetricsFrom(CoarseSamples) /\ UNCHANGED tickVars

\* A handler that assumes Normal when the sample is missing.
GetSystemMetricsRaisesResetsLevel ==
    /\ rc_pc = "sample"
    /\ rc_pc' = "crashed"
    /\ shared_state' = StoreSet(shared_state, "throttling_level", 0)
    /\ UNCHANGED <<cpu_limit, ram_limit, throttling_level, rc_cpu, rc_ram,
                   connVars, dockerVars, vectorVars, metricsVars,
                   tickVars, configVars, awsVars, suricataVars>>

\* psutil raises inside _get_system_metrics: run has no handler, the exception
\* leaves the while loop and the process ends.
GetSystemMetricsRaises ==
    /\ rc_pc = "sample"
    /\ rc_pc' = "crashed"
    /\ UNCHANGED <<shared_state, cpu_limit, ram_limit, throttling_level, rc_cpu, rc_ram,
                   connVars, dockerVars, vectorVars, metricsVars,
                   tickVars, configVars, awsVars, suricataVars>>

WriteCpuUsage ==
    /\ rc_pc = "write_cpu"
    /\ shared_state' = StoreSet(shared_state, "cpu_usage", rc_cpu)
    /\ rc_pc' = "write_ram"
    /\ UNCHANGED <<cpu_limit, ram_limit, throttling_level, rc_cpu, rc_ram, connVars, dockerVars, vectorVars, metricsVars,
                   tickVars, configVars, awsVars, suricataVars>>

WriteRamUsage ==
    /\ rc_pc = "write_ram"
    /\ shared_state' = StoreSet(shared_state, "ram_usage", rc_ram)
    /\ rc_pc' = "throttle"
    /\ UNCHANGED <<cpu_limit, ram_limit, throttling_level, rc_cpu, rc_ram, connVars, dockerVars, vectorVars, metricsVars,
                   tickVars, configVars, awsVars, suricataVars>>

\* A level that is lowered by at most one step per tick.
ApplyThrottlingHysteresis ==
    /\ rc_pc = "throttle"
    /\ LET computed == CurrentThrottlingLevel(rc_cpu, rc_ram, cpu_limit, ram_limit)
           level == IF computed < throttling_level - 1 THEN throttling_level - 1 ELSE computed
       IN  /\ throttling_level' = level
           /\ shared_state' = StoreSet(shared_state, "throttling_level", level)
    /\ rc_pc' = "sleep"
    /\ UNCHANGED <<cpu_limit, ram_limit, rc_cpu, rc_ram, connVars, dockerVars, vectorVars, metricsVars,
                   tickVars, configVars, awsVars, suricataVars>>

\* The level set in the multiprocessing.Value only, the store write left out.
ApplyThrottlingValueOnly ==
    /\ rc_pc = "throttle"
    /\ throttling_level' = CurrentThrottlingLevel(rc_cpu, rc_ram, cpu_limit, ram_limit)
    /\ rc_pc' = "sleep"
    /\ UNCHANGED <<shared_state, cpu_limit, ram_limit, rc_cpu, rc_ram, connVars, dockerVars,
                   vectorVars, metricsVars, tickVars, configVars, awsVars, suricataVars>>

ApplyThrottling ==
    /\ rc_pc = "throttle"
    /\ LET level == CurrentThrottlingLevel(rc_cpu, rc_ram, cpu_limit, ram_limit)
       IN  /\ throttling_level' = level
           /\ shared_state' = StoreSet(shared_state, "throttling_level", level)
    /\ rc_pc' = "sleep"
    /\ UNCHANGED <<cpu_limit, ram_limit, rc_cpu, rc_ram, connVars, dockerVars, vectorVars, metricsVars,
                   tickVars, configVars, awsVars, suricataVars>>

RCSleep ==
    /\ rc_pc = "sleep"
    /\ rc_pc' = "sample"
    /\ UNCHANGED <<shared_state, cpu_limit, ram_limit, throttling_level, rc_cpu, rc_ram, connVars, dockerVars, vectorVars, metricsVars,
                   tickVars, configVars, awsVars, suricataVars>>

RCNext ==
    \/ GetSystemMetrics
    \/ GetSystemMetricsRaises
    \/ WriteCpuUsage
    \/ WriteRamUsage
    \/ ApplyThrottling
    \/ RCSleep

(***************************************************************************)
(* The ticks of ResourceController.run with their history: the readings of *)
(* the preceding tick, and the readings and the level of the first tick.   *)
(* One reading per throttling level is drawn.                              *)
(***************************************************************************)
LevelSamples ==
    {0, DefaultLimit + 1, DefaultLimit + ModerateOffset + 1, DefaultLimit + SevereOffset + 1}

TickInit ==
    /\ sampled = FALSE
    /\ prev_cpu = -1
    /\ prev_ram = -1
    /\ first_cpu = -1
    /\ first_ram = -1
    /\ first_level = -1

TickIdle == TickInit

TickSample ==
    /\ GetSystemMetricsFrom(LevelSamples)
    /\ sampled' = TRUE
    /\ prev_cpu' = (IF sampled THEN rc_cpu ELSE -1)
    /\ prev_ram' = (IF sampled THEN rc_ram ELSE -1)
    /\ IF sampled /\ first_level = -1
       THEN /\ first_cpu' = rc_cpu
            /\ first_ram' = rc_ram
            /\ first_level' = StoreGet(shared_state, "throttling_level", -1)
       ELSE UNCHANGED <<first_cpu, first_ram, first_level>>

TickNext ==
    \/ TickSample
    \/ WriteCpuUsage
    \/ WriteRamUsage
    \/ ApplyThrottling
    \/ RCSleep

(***************************************************************************)
(* ConnectivityAsync: the retry executor, the four checks and the cycle of *)
(* run_connectivity_checks.  The worker is one asyncio event loop: a call  *)
(* of a check, together with the reaction of _retry_operation to it, is    *)
(* one step; the backoff sleeps and the gather are where tasks interleave. *)
(***************************************************************************)
MaxRetries == 5
InitialBackoff == 1

NoEndpoint == ""
Endpoint == "https://search.example"
Endpoints == {NoEndpoint, Endpoint}

Checks == {"dns", "tls", "bulk", "redis"}

MaxStatusOffset == 1

HttpStatuses == 200 .. (200 + MaxStatusOffset)

NoInput == [event |-> "none", status |-> 0]
NetworkInput(e) == [event |-> e, status |-> 0]

DnsInputs == {NetworkInput("ok"), NetworkInput("gaierror")}
TlsInputs == {NetworkInput("ok"), NetworkInput("connect_error"), NetworkInput("close_error")}
BulkInputs == {[event |-> "response", status |-> s] : s \in HttpStatuses}
                  \cup {NetworkInput("client_error"), NetworkInput("timeout")}
RedisInputs == {NetworkInput("ok"), NetworkInput("connect_error"), NetworkInput("close_error")}

NoResult == [kind |-> "none", value |-> "", attempt |-> 0]
Returns(v) == [kind |-> "return", value |-> v]
Raises(e) == [kind |-> "raise", value |-> e]

\* StreamWriter.close(): asks for the connection to be closed.
WriterCloseSkipped(c) == c

WriterClose(c) == IF c = "open" THEN "closing" ELSE c

\* StreamWriter.wait_closed() returning normally.
WaitClosed(c) == IF c = "closing" THEN "closed" ELSE c

\* check_dns_resolution: [out, store, conn] of one call.
CheckDnsResolution(input, store) ==
    IF input.event = "ok"
    THEN [out |-> Returns("True"), store |-> store, conn |-> "none"]
    ELSE [out |-> Raises("gaierror"), store |-> store, conn |-> "none"]

\* check_tls_handshake
CheckTlsHandshake(input, store) ==
    IF input.event = "connect_error"
    THEN [out |-> Raises("ConnectionRefusedError"), store |-> store, conn |-> "none"]
    ELSE LET closing == WriterClose("open")
         IN  IF input.event = "close_error"
             THEN [out |-> Raises("OSError"), store |-> store, conn |-> closing]
             ELSE [out |-> Returns("True"), store |-> store, conn |-> WaitClosed(closing)]

\* response.status == 200
StatusIsSuccessAny2xx(s) == s >= 200 /\ s < 300

StatusIsSuccess(s) == s = 200

\* check_opensearch_bulk_test
CheckOpensearchBulkTest(input, store) ==
    IF opensearch_endpoint = NoEndpoint
    THEN [out |-> Returns("False"),
          store |-> StoreSet(store, "aws_ready", FALSE), conn |-> "none"]
    ELSE IF input.event = "response"
    THEN IF StatusIsSuccess(input.status)
         THEN [out |-> Returns("True"),
               store |-> StoreSet(store, "aws_ready", TRUE), conn |-> "none"]
         ELSE [out |-> Returns("False"),
               store |-> StoreSet(StoreSet(store, "aws_ready", FALSE), "last_error",
                            "OpenSearch health check failed: " \o ToString(input.status)),
               conn |-> "none"]
    ELSE IF input.event = "client_error"
    THEN [out |-> Raises("ClientError"),
          store |-> StoreSet(StoreSet(store, "aws_ready", FALSE), "last_error",
                       "OpenSearch HTTP client error: ClientError"),
          conn |-> "none"]
    ELSE [out |-> Raises("TimeoutError"),
          store |-> StoreSet(StoreSet(store, "aws_ready", FALSE), "last_error",
                       "OpenSearch test error: TimeoutError"),
          conn |-> "none"]

\* check_redis_connectivity
CheckRedisConnectivity(input, store) ==
    LET failed(e, c) ==
            [out |-> Raises(e),
             store |-> StoreSet(StoreSet(store, "redis_ready", FALSE), "last_error",
                          "Redis connectivity error: " \o e),
             conn |-> c]
    IN  IF input.event = "connect_error"
        THEN failed("ConnectionRefusedError", "none")
        ELSE LET closing == WriterClose("open")
             IN  IF input.event = "close_error"
                 THEN failed("OSError", closing)
                 ELSE [out |-> Returns("True"),
                       store |-> StoreSet(store, "redis_ready", TRUE),
                       conn |-> WaitClosed(closing)]

\* sleep_time = self.initial_backoff * (2 ** retries)
SleepTimeLinear(r) == InitialBackoff * 2 * r

SleepTime(r) == InitialBackoff * (2 ^ r)

(***************************************************************************)
(* _retry_operation: what one pass of the loop body does with the outcome  *)
(* `out` of `await func()` when `r` retries were counted before it.        *)
(* wait = 0 stands for no sleep.                                           *)
(***************************************************************************)
RetryOperationOneMore(r, out, n) ==
    IF out.kind = "return"
    THEN [retries |-> r, status |-> "returned",
          result |-> [kind |-> "return", value |-> out.value, attempt |-> n], wait |-> 0]
    ELSE IF r + 1 > MaxRetries
         THEN [retries |-> r + 1, status |-> "raised",
               result |-> [kind |-> "raise", value |-> out.value, attempt |-> n], wait |-> 0]
         ELSE [retries |-> r + 1, status |-> "pending", result |-> NoResult,
               wait |-> SleepTime(r + 1)]

RetryOperationNoReturn(r, out, n) ==
    IF out.kind = "return"
    THEN [retries |-> r, status |-> "pending", result |-> NoResult, wait |-> 0]
    ELSE IF r + 1 >= MaxRetries
         THEN [retries |-> r + 1, status |-> "raised",
               result |-> [kind |-> "raise", value |-> out.value, attempt |-> n], wait |-> 0]
         ELSE [retries |-> r + 1, status |-> "pending", result |-> NoResult,
               wait |-> SleepTime(r + 1)]

\* An executor that also retries a check that returned False.
RetryOperationRetriesFalse(r, out, n) ==
    IF out.kind = "return" /\ out.value # "False"
    THEN [retries |-> r, status |-> "returned",
          result |-> [kind |-> "return", value |-> out.value, attempt |-> n], wait |-> 0]
    ELSE IF r + 1 >= MaxRetries
         THEN [retries |-> r + 1, status |-> IF out.kind = "return" THEN "returned" ELSE "raised",
               result |-> [kind |-> out.kind, value |-> out.value, attempt |-> n], wait |-> 0]
         ELSE [retries |-> r + 1, status |-> "pending", result |-> NoResult,
               wait |-> SleepTime(r + 1)]

RetryOperation(r, out, n) ==
    IF out.kind = "return"
    THEN [retries |-> r, status |-> "returned",
          result |-> [kind |-> "return", value |-> out.value, attempt |-> n], wait |-> 0]
    ELSE IF r + 1 >= MaxRetries
         THEN [retries |-> r + 1, status |-> "raised",
               result |-> [kind |-> "raise", value |-> out.value, attempt |-> n], wait |-> 0]
         ELSE IF r + 1 < MaxRetries
              THEN [retries |-> r + 1, status |-> "pending", result |-> NoResult,
                    wait |-> SleepTime(r + 1)]
              ELSE [retries |-> r + 1, status |-> "returned",
                    result |-> [kind |-> "return", value |-> "None", attempt |-> n],
                    wait |-> SleepTime(r + 1)]

\* One call of check t with network behaviour `input`, inside _retry_operation.
Attempt(t, input, c) ==
    /\ conn_pc = "gather"
    /\ t \in tasks
    /\ status[t] = "pending"
    /\ LET n == calls[t] + 1
           e == RetryOperation(retries[t], c.out, n)
       IN  /\ shared_state' = c.store
           /\ conn' = [conn EXCEPT ![t] = c.conn]
           /\ calls' = [calls EXCEPT ![t] = n]
           /\ last_input' = [last_input EXCEPT ![t] = input]
           /\ last_outcome' = [last_outcome EXCEPT
                                  ![t] = [kind |-> c.out.kind, value |-> c.out.value, attempt |-> n]]
           /\ retries' = [retries EXCEPT ![t] = e.retries]
           /\ status' = [status EXCEPT ![t] = e.status]
           /\ result' = [result EXCEPT ![t] = e.result]
           /\ waits' = [waits EXCEPT ![t] = IF e.wait = 0 THEN @ ELSE Append(@, e.wait)]
    /\ UNCHANGED <<opensearch_endpoint, conn_pc, tasks, rcVars, dockerVars, vectorVars, metricsVars,
                   tickVars, configVars, awsVars, suricataVars>>

DnsAttempt ==
    \E input \in DnsInputs : Attempt("dns", input, CheckDnsResolution(input, shared_state))

TlsAttempt ==
    \E input \in TlsInputs : Attempt("tls", input, CheckTlsHandshake(input, shared_state))

BulkAttempt ==
    \E input \in BulkInputs : Attempt("bulk", input, CheckOpensearchBulkTest(input, shared_state))

RedisAttempt ==
    \E input \in RedisInputs : Attempt("redis", input, CheckRedisConnectivity(input, shared_state))

\* The tasks list built by run_connectivity_checks.
LaunchedTasks == IF opensearch_endpoint # NoEndpoint THEN Checks ELSE {"redis"}

ConnInit ==
    /\ opensearch_endpoint \in Endpoints
    /\ conn_pc = "launch"
    /\ tasks = {}
    /\ retries = [t \in Checks |-> 0]
    /\ status = [t \in Checks |-> "idle"]
    /\ result = [t \in Checks |-> NoResult]
    /\ calls = [t \in Checks |-> 0]
    /\ waits = [t \in Checks |-> <<>>]
    /\ last_input = [t \in Checks |-> NoInput]
    /\ last_outcome = [t \in Checks |-> NoResult]
    /\ conn = [t \in Checks |-> "none"]

ConnIdle ==
    /\ opensearch_endpoint = NoEndpoint
    /\ conn_pc = "off"
    /\ tasks = {}
    /\ retries = [t \in Checks |-> 0]
    /\ status = [t \in Checks |-> "idle"]
    /\ result = [t \in Checks |-> NoResult]
    /\ calls = [t \in Checks |-> 0]
    /\ waits = [t \in Checks |-> <<>>]
    /\ last_input = [t \in Checks |-> NoInput]
    /\ last_outcome = [t \in Checks |-> NoResult]
    /\ conn = [t \in Checks |-> "none"]

\* Building the tasks of a cycle: every launched check starts a fresh _retry_operation.
LaunchTasks ==
    /\ conn_pc = "launch"
    /\ tasks' = LaunchedTasks
    /\ retries' = [t \in Checks |-> 0]
    /\ status' = [t \in Checks |-> IF t \in LaunchedTasks THEN "pending" ELSE "idle"]
    /\ result' = [t \in Checks |-> NoResult]
    /\ calls' = [t \in Checks |-> 0]
    /\ waits' = [t \in Checks |-> <<>>]
    /\ last_input' = [t \in Checks |-> NoInput]
    /\ last_outcome' = [t \in Checks |-> NoResult]
    /\ conn' = [t \in Checks |-> "none"]
    /\ conn_pc' = "gather"
    /\ UNCHANGED <<shared_state, opensearch_endpoint, rcVars, dockerVars, vectorVars, metricsVars,
                   tickVars, configVars, awsVars, suricataVars>>

\* await asyncio.gather(*tasks, return_exceptions=True) is over.
GatherDoneOnFirstException ==
    \/ \A t \in tasks : status[t] \in {"returned", "raised"}
    \/ \E t \in tasks : status[t] = "raised"

GatherDone == \A t \in tasks : status[t] \in {"returned", "raised"}

\* all(r is True for r in results if not isinstance(r, Exception))
PipelineOk ==
    \A t \in tasks : result[t].kind # "raise"
                        => (result[t].kind = "return" /\ result[t].value = "True")

PublishPipelineOk ==
    /\ conn_pc = "gather"
    /\ GatherDone
    /\ shared_state' = StoreSet(shared_state, "pipeline_ok", PipelineOk)
    /\ conn_pc' = "sleep"
    /\ UNCHANGED <<opensearch_endpoint, tasks, retries, status, result, calls, waits,
                   last_input, last_outcome, conn, rcVars, dockerVars, vectorVars, metricsVars,
                   tickVars, configVars, awsVars, suricataVars>>

ConnSleep ==
    /\ conn_pc = "sleep"
    /\ conn_pc' = "launch"
    /\ UNCHANGED <<shared_state, opensearch_endpoint, tasks, retries, status, result,
                   calls, waits, last_input, last_outcome, conn, rcVars, dockerVars, vectorVars, metricsVars,
                   tickVars, configVars, awsVars, suricataVars>>

ConnNext ==
    \/ LaunchTasks
    \/ DnsAttempt
    \/ TlsAttempt
    \/ BulkAttempt
    \/ RedisAttempt
    \/ PublishPipelineOk
    \/ ConnSleep

(***************************************************************************)
(* DockerManager.check_stack_health.  `containers` is what the Docker      *)
(* daemon would answer for each required service during the call:          *)
(* a container status, "not_found" (docker.errors.NotFound) or "error"     *)
(* (any other exception of the query).                                     *)
(***************************************************************************)
RequiredServices == <<"vector", "redis", "prometheus", "grafana">>

ServiceNames == {RequiredServices[i] : i \in 1..Len(RequiredServices)}

ContainerAnswers == {"running", "exited", "not_found", "error"}

\* container.status != 'running' is false
ServiceIsRunningIfFound(answer) == answer \notin {"not_found", "error"}

ServiceIsRunning(answer) == answer = "running"

DockerInit ==
    /\ dk_pc = "idle"
    /\ containers = [s \in ServiceNames |-> "not_found"]
    /\ daemon_ok = FALSE
    /\ service_index = 1
    /\ all_healthy = TRUE
    /\ queried = <<>>
    /\ dk_result = "none"

DockerIdle ==
    /\ dk_pc = "off"
    /\ containers = [s \in ServiceNames |-> "not_found"]
    /\ daemon_ok = FALSE
    /\ service_index = 1
    /\ all_healthy = TRUE
    /\ queried = <<>>
    /\ dk_result = "none"

\* check_stack_health is called and the ping of _check_docker_daemon raises.
DaemonUnreachable ==
    /\ dk_pc \in {"idle", "returned"}
    /\ daemon_ok' = FALSE
    /\ shared_state' = StoreSet(shared_state, "last_error",
                          "Docker daemon not accessible: DockerException")
    /\ dk_result' = "False"
    /\ dk_pc' = "returned"
    /\ service_index' = 1
    /\ all_healthy' = TRUE
    /\ queried' = <<>>
    /\ UNCHANGED <<containers, rcVars, connVars, vectorVars, metricsVars,
                   tickVars, configVars, awsVars, suricataVars>>

\* check_stack_health is called and the ping succeeds: the loop starts.
DaemonReachable ==
    /\ dk_pc \in {"idle", "returned"}
    /\ daemon_ok' = TRUE
    /\ containers' \in [ServiceNames -> ContainerAnswers]
    /\ dk_result' = "none"
    /\ dk_pc' = "loop"
    /\ service_index' = 1
    /\ all_healthy' = TRUE
    /\ queried' = <<>>
    /\ UNCHANGED <<shared_state, rcVars, connVars, vectorVars, metricsVars,
                   tickVars, configVars, awsVars, suricataVars>>

\* The loop without its break statements.
QueryServiceNoBreak ==
    /\ dk_pc = "loop"
    /\ service_index <= Len(RequiredServices)
    /\ LET service_name == RequiredServices[service_index]
           answer == containers[service_name]
       IN  /\ queried' = Append(queried, service_name)
           /\ service_index' = service_index + 1
           /\ all_healthy' = (all_healthy /\ ServiceIsRunning(answer))
           /\ UNCHANGED dk_pc
    /\ UNCHANGED <<shared_state, containers, daemon_ok, dk_result, rcVars, connVars, vectorVars, metricsVars,
                   tickVars, configVars, awsVars, suricataVars>>

\* One pass of the for loop: self.client.containers.get(...) and the status test.
QueryService ==
    /\ dk_pc = "loop"
    /\ service_index <= Len(RequiredServices)
    /\ LET service_name == RequiredServices[service_index]
           answer == containers[service_name]
       IN  /\ queried' = Append(queried, service_name)
           /\ IF ServiceIsRunning(answer)
              THEN /\ service_index' = service_index + 1
                   /\ UNCHANGED <<all_healthy, dk_pc>>
              ELSE /\ all_healthy' = FALSE
                   /\ dk_pc' = "write"
                   /\ UNCHANGED service_index
    /\ UNCHANGED <<shared_state, containers, daemon_ok, dk_result, rcVars, connVars, vectorVars, metricsVars,
                   tickVars, configVars, awsVars, suricataVars>>

\* The loop ran through all the required services.
LoopExhausted ==
    /\ dk_pc = "loop"
    /\ service_index > Len(RequiredServices)
    /\ dk_pc' = "write"
    /\ UNCHANGED <<shared_state, containers, daemon_ok, service_index, all_healthy,
                   queried, dk_result, rcVars, connVars, vectorVars, metricsVars,
                   tickVars, configVars, awsVars, suricataVars>>

\* A health check that wipes last_error when the stack is healthy.
WriteDockerHealthyClearsError ==
    /\ dk_pc = "write"
    /\ shared_state' =
          IF all_healthy
          THEN StoreSet(StoreSet(shared_state, "docker_healthy", TRUE), "last_error", "")
          ELSE StoreSet(StoreSet(shared_state, "docker_healthy", FALSE),
                        "last_error", "Docker stack not healthy.")
    /\ dk_result' = IF all_healthy THEN "True" ELSE "False"
    /\ dk_pc' = "returned"
    /\ dh_written' = (dh_written \/ vh_pc \in {"write", "write_error"})
    /\ UNCHANGED <<containers, daemon_ok, service_index, all_healthy, queried,
                   rcVars, connVars, vh_pc, vh_read, vh_present, vh_result, metricsVars,
                   tickVars, configVars, awsVars, suricataVars>>

\* self.shared_state['docker_healthy'] = all_healthy ... return all_healthy
WriteDockerHealthy ==
    /\ dk_pc = "write"
    /\ shared_state' =
          IF all_healthy
          THEN StoreSet(shared_state, "docker_healthy", TRUE)
          ELSE StoreSet(StoreSet(shared_state, "docker_healthy", FALSE),
                        "last_error", "Docker stack not healthy.")
    /\ dk_result' = IF all_healthy THEN "True" ELSE "False"
    /\ dk_pc' = "returned"
    /\ dh_written' = (dh_written \/ vh_pc \in {"write", "write_error"})
    /\ UNCHANGED <<containers, daemon_ok, service_index, all_healthy, queried,
                   rcVars, connVars, vh_pc, vh_read, vh_present, vh_result, metricsVars,
                   tickVars, configVars, awsVars, suricataVars>>

DockerNext ==
    \/ DaemonUnreachable
    \/ DaemonReachable
    \/ QueryService
    \/ LoopExhausted
    \/ WriteDockerHealthy

\* The remote end never answers a call of check t.  getaddrinfo and
\* asyncio.open_connection are awaited with no timeout and no asyncio.wait_for, so
\* the await never completes: the task stays inside the call and gather never ends.
AttemptHangs(t) ==
    /\ conn_pc = "gather"
    /\ t \in tasks
    /\ status[t] = "pending"
    /\ status' = [status EXCEPT ![t] = "hung"]
    /\ calls' = [calls EXCEPT ![t] = @ + 1]
    /\ last_input' = [last_input EXCEPT ![t] = NetworkInput("no_answer")]
    /\ UNCHANGED <<shared_state, opensearch_endpoint, conn_pc, tasks, retries, result, waits,
                   last_outcome, conn, rcVars, dockerVars, vectorVars, metricsVars,
                   tickVars, configVars, awsVars, suricataVars>>

RedisAttemptHangs == AttemptHangs("redis")

\* The cycle of a checker configured without an OpenSearch endpoint: only the
\* Redis check is launched.
ConnNextRedisOnly ==
    \/ LaunchTasks
    \/ RedisAttempt
    \/ PublishPipelineOk
    \/ ConnSleep

(***************************************************************************)
(* VectorManager.check_vector_health: one store read, then one or two      *)
(* store writes.  Each access of the Manager dict is one step, so another  *)
(* worker can write between them.                                          *)
(***************************************************************************)
\* self.shared_state.get('docker_healthy', True)
DockerHealthyDefaultTrue(store) == StoreGet(store, "docker_healthy", TRUE)

\* self.shared_state.get('docker_healthy', False)
DockerHealthy(store) == StoreGet(store, "docker_healthy", FALSE)

VectorInit ==
    /\ vh_pc = "idle"
    /\ vh_read = FALSE
    /\ vh_present = FALSE
    /\ vh_result = "none"
    /\ dh_written = FALSE

VectorIdle ==
    /\ vh_pc = "off"
    /\ vh_read = FALSE
    /\ vh_present = FALSE
    /\ vh_result = "none"
    /\ dh_written = FALSE

\* check_vector_health is called: the condition of the if is evaluated.
ReadDockerHealthy ==
    /\ vh_pc \in {"idle", "returned"}
    /\ vh_read' = DockerHealthy(shared_state)
    /\ vh_present' = ("docker_healthy" \in DOMAIN shared_state)
    /\ dh_written' = FALSE
    /\ vh_result' = "none"
    /\ vh_pc' = "write"
    /\ UNCHANGED <<shared_state, rcVars, connVars, dockerVars, metricsVars,
                   tickVars, configVars, awsVars, suricataVars>>

\* self.shared_state['vector_healthy'] = True, return True / ... = False
WriteVectorHealthy ==
    /\ vh_pc = "write"
    /\ shared_state' = StoreSet(shared_state, "vector_healthy", vh_read)
    /\ IF vh_read
       THEN /\ vh_result' = "True"
            /\ vh_pc' = "returned"
       ELSE /\ vh_pc' = "write_error"
            /\ UNCHANGED vh_result
    /\ UNCHANGED <<vh_read, vh_present, dh_written, rcVars, connVars, dockerVars, metricsVars,
                   tickVars, configVars, awsVars, suricataVars>>

\* A write of last_error that interleaves with the text already in the store.
WriteVectorErrorTorn ==
    /\ vh_pc = "write_error"
    /\ shared_state' = StoreSet(shared_state, "last_error",
                          StoreGet(shared_state, "last_error", "") \o "Vector container")
    /\ vh_result' = "False"
    /\ vh_pc' = "returned"
    /\ UNCHANGED <<vh_read, vh_present, dh_written, rcVars, connVars, dockerVars, metricsVars,
                   tickVars, configVars, awsVars, suricataVars>>

\* self.shared_state['last_error'] = "Vector container not healthy."; return False
WriteVectorError ==
    /\ vh_pc = "write_error"
    /\ shared_state' = StoreSet(shared_state, "last_error", "Vector container not healthy.")
    /\ vh_result' = "False"
    /\ vh_pc' = "returned"
    /\ UNCHANGED <<vh_read, vh_present, dh_written, rcVars, connVars, dockerVars, metricsVars,
                   tickVars, configVars, awsVars, suricataVars>>

VectorNext ==
    \/ ReadDockerHealthy
    \/ WriteVectorHealthy
    \/ WriteVectorError

(***************************************************************************)
(* MetricsServer: the gauges and counters of __init__, and run with        *)
(* _update_metrics, one step per read of the store.                        *)
(***************************************************************************)
\* The gauges in the order _update_metrics sets them: the store key read, the
\* Prometheus metric set, and whether the value goes through `1 if ... else 0`.
Exported ==
    << [key |-> "cpu_usage", metric |-> "ids2_cpu_usage_percent", kind |-> "number"],
       [key |-> "ram_usage", metric |-> "ids2_ram_usage_percent", kind |-> "number"],
       [key |-> "redis_queue_depth", metric |-> "ids2_redis_queue_depth", kind |-> "number"],
       [key |-> "vector_healthy", metric |-> "ids2_vector_health", kind |-> "boolean"],
       [key |-> "aws_ready", metric |-> "ids2_aws_ready", kind |-> "boolean"],
       [key |-> "redis_ready", metric |-> "ids2_redis_ready", kind |-> "boolean"],
       [key |-> "pipeline_ok", metric |-> "ids2_pipeline_ok", kind |-> "boolean"],
       [key |-> "throttling_level", metric |-> "ids2_throttling_level", kind |-> "number"] >>

ExportedKeys == {Exported[i].key : i \in 1..Len(Exported)}

GaugeNames == {Exported[i].metric : i \in 1..Len(Exported)}

CounterNames == {"ids2_ingestion_rate_total", "ids2_error_total"}

ExportIndex(k) == CHOOSE i \in 1..Len(Exported) : Exported[i].key = k

\* shared_state.setdefault(key, default): the dict after the read
StoreAfterSetdefault(d, k, default) == IF k \in DOMAIN d THEN d ELSE StoreSet(d, k, default)

\* shared_state.get(key, default): the dict after the read
StoreAfterGet(d, k, default) == d

\* The argument of gauge.set(...) for the i-th gauge.
ExportedValue(store, e) ==
    IF e.kind = "boolean"
    THEN IF StoreGet(store, e.key, FALSE) THEN 1 ELSE 0
    ELSE StoreGet(store, e.key, 0)

\* gauge.inc(v)
GaugeInc(old, v) == old + v

\* gauge.set(v)
GaugeSet(old, v) == v

\* The gauges after the i-th statement of _update_metrics.
SetGaugeAt(g, store, i) ==
    [g EXCEPT ![Exported[i].metric] = GaugeSet(@, ExportedValue(store, Exported[i]))]

\* The gauges after a whole _update_metrics over a store that no one writes meanwhile.
RECURSIVE UpdateMetricsFrom(_, _, _)
UpdateMetricsFrom(g, store, i) ==
    IF i > Len(Exported) THEN g ELSE UpdateMetricsFrom(SetGaugeAt(g, store, i), store, i + 1)

UpdateMetrics(g, store) == UpdateMetricsFrom(g, store, 1)

MetricsInit ==
    /\ ms_pc = Exported[1].key
    /\ gauges = [m \in GaugeNames |-> 0]
    /\ counters = [m \in CounterNames |-> 0]

MetricsIdle ==
    /\ ms_pc = "off"
    /\ gauges = [m \in GaugeNames |-> 0]
    /\ counters = [m \in CounterNames |-> 0]

\* One statement of _update_metrics: a read of the store and the set of a gauge.
SetGauge ==
    /\ ms_pc \in ExportedKeys
    /\ LET i == ExportIndex(ms_pc)
           e == Exported[i]
       IN  /\ gauges' = SetGaugeAt(gauges, shared_state, i)
           /\ shared_state' = StoreAfterGet(shared_state, e.key, 0)
           /\ ms_pc' = IF i < Len(Exported) THEN Exported[i + 1].key ELSE "sleep"
    /\ UNCHANGED <<counters, rcVars, connVars, dockerVars, vectorVars,
                   tickVars, configVars, awsVars, suricataVars>>

\* A read of the store raises (the manager process is gone): run has no handler,
\* the exception leaves the while loop and the process ends.
StoreGetRaises ==
    /\ ms_pc \in ExportedKeys
    /\ ms_pc' = "crashed"
    /\ UNCHANGED <<shared_state, gauges, counters, rcVars, connVars, dockerVars, vectorVars,
                   tickVars, configVars, awsVars, suricataVars>>

\* time.sleep(5), then the next _update_metrics
MetricsSleep ==
    /\ ms_pc = "sleep"
    /\ ms_pc' = Exported[1].key
    /\ UNCHANGED <<shared_state, gauges, counters, rcVars, connVars, dockerVars, vectorVars,
                   tickVars, configVars, awsVars, suricataVars>>

MetricsNext ==
    \/ SetGauge
    \/ StoreGetRaises
    \/ MetricsSleep

(***************************************************************************)
(* ConfigManager.  A document is a two-level dict: section -> key -> value, *)
(* as every configuration file of the repository is.  self.config holds    *)
(* the document object in force; reload_config builds a new object with    *)
(* _load_config and then rebinds self.config to it.  get takes the object  *)
(* once (value = self.config) and then resolves one segment per step.      *)
(***************************************************************************)
NoValue == "None"

DocLauncher ==
    [aws |-> [region |-> "eu-central-1", domain_name |-> "test-suricata-prod",
              opensearch_endpoint |-> ""]]

DocEndpoint ==
    [aws |-> [region |-> "eu-west-1", opensearch_endpoint |-> Endpoint]]

DocNoRegion == [aws |-> [domain_name |-> "test-suricata-prod", opensearch_endpoint |-> Endpoint]]

DocNoAws == [prometheus |-> [port |-> "9100"]]

EmptyDoc == [k \in {} |-> [j \in {} |-> ""]]

Docs == {DocLauncher, DocEndpoint, DocNoRegion, DocNoAws}

FilePresent(doc) == [state |-> "present", doc |-> doc]

Files == {FilePresent(d) : d \in Docs}
            \cup {[state |-> "missing", doc |-> EmptyDoc], [state |-> "unreadable", doc |-> EmptyDoc]}

ConfigKeys ==
    {<<"aws", "region">>, <<"aws", "opensearch_endpoint">>, <<"prometheus", "port">>,
     <<"aws", "region", "zone">>}

\* ConfigManager.get as a whole, over one document.
ConfigGet(doc, key, default) ==
    IF /\ Len(key) = 2
       /\ key[1] \in DOMAIN doc
       /\ key[2] \in DOMAIN doc[key[1]]
    THEN doc[key[1]][key[2]]
    ELSE default

ConfigInit ==
    /\ config \in Docs
    /\ config_file = FilePresent(config)
    /\ rl_pc = "idle"
    /\ rl_loaded = config
    /\ gt_pc = "idle"
    /\ gt_key = <<>>
    /\ gt_doc = config
    /\ gt_depth = 0
    /\ gt_result = NoValue

\* A loaded configuration that nobody reads step by step or reloads.
ConfigLoaded ==
    /\ config \in Docs
    /\ config_file = FilePresent(config)
    /\ rl_pc = "off"
    /\ rl_loaded = config
    /\ gt_pc = "off"
    /\ gt_key = <<>>
    /\ gt_doc = config
    /\ gt_depth = 0
    /\ gt_result = NoValue

ConfigIdle ==
    /\ ConfigLoaded
    /\ config = DocLauncher

\* The file at config_path is edited, removed or made unreadable.
FileChanges ==
    /\ rl_pc # "off"
    /\ config_file' \in Files \ {config_file}
    /\ UNCHANGED <<shared_state, config, rl_pc, rl_loaded, gt_pc, gt_key, gt_doc, gt_depth,
                   gt_result, rcVars, connVars, dockerVars, vectorVars, metricsVars,
                   tickVars, awsVars, suricataVars>>

\* A reload that empties the dict in force before it loads.
LoadConfigClearsFirst ==
    /\ rl_pc \in {"idle", "done", "raised"}
    /\ config_file.state = "present"
    /\ config' = EmptyDoc
    /\ rl_loaded' = config_file.doc
    /\ rl_pc' = "loaded"
    /\ UNCHANGED <<shared_state, config_file, gt_pc, gt_key, gt_doc, gt_depth, gt_result,
                   rcVars, connVars, dockerVars, vectorVars, metricsVars, tickVars, awsVars, suricataVars>>

\* reload_config: self._load_config() returns the document of the file.
LoadConfig ==
    /\ rl_pc \in {"idle", "done", "raised"}
    /\ config_file.state = "present"
    /\ rl_loaded' = config_file.doc
    /\ rl_pc' = "loaded"
    /\ UNCHANGED <<shared_state, config, config_file, gt_pc, gt_key, gt_doc, gt_depth,
                   gt_result, rcVars, connVars, dockerVars, vectorVars, metricsVars,
                   tickVars, awsVars, suricataVars>>

\* reload_config: self._load_config() raises (FileNotFoundError, or the error of
\* open / yaml.safe_load); the assignment is not reached.
LoadConfigRaises ==
    /\ rl_pc \in {"idle", "done", "raised"}
    /\ config_file.state # "present"
    /\ rl_pc' = "raised"
    /\ UNCHANGED <<shared_state, config, config_file, rl_loaded, gt_pc, gt_key, gt_doc,
                   gt_depth, gt_result, rcVars, connVars, dockerVars, vectorVars,
                   metricsVars, tickVars, awsVars, suricataVars>>

\* reload_config: self.config = <the loaded document>
AssignConfig ==
    /\ rl_pc = "loaded"
    /\ config' = rl_loaded
    /\ rl_pc' = "done"
    /\ UNCHANGED <<shared_state, config_file, rl_loaded, gt_pc, gt_key, gt_doc, gt_depth,
                   gt_result, rcVars, connVars, dockerVars, vectorVars, metricsVars,
                   tickVars, awsVars, suricataVars>>

\* get: keys = key.split('.'); value = self.config
GetStart ==
    /\ gt_pc \in {"idle", "returned"}
    /\ gt_key' \in ConfigKeys
    /\ gt_doc' = config
    /\ gt_depth' = 0
    /\ gt_result' = NoValue
    /\ gt_pc' = "walk"
    /\ UNCHANGED <<shared_state, config, config_file, rl_pc, rl_loaded,
                   rcVars, connVars, dockerVars, vectorVars, metricsVars, tickVars, awsVars, suricataVars>>

\* get: one pass of the for loop over the segments, and the return that follows
\* the last one.  The value held after d segments is a dict while d < 2.
GetSegment ==
    /\ gt_pc = "walk"
    /\ LET k == gt_key[gt_depth + 1]
           found == \/ gt_depth = 0 /\ k \in DOMAIN gt_doc
                    \/ gt_depth = 1 /\ k \in DOMAIN gt_doc[gt_key[1]]
       IN  IF ~found
           THEN /\ gt_result' = NoValue
                /\ gt_pc' = "returned"
                /\ UNCHANGED gt_depth
           ELSE /\ gt_depth' = gt_depth + 1
                /\ IF gt_depth + 1 = Len(gt_key)
                   THEN /\ gt_result' = gt_doc[gt_key[1]][gt_key[2]]
                        /\ gt_pc' = "returned"
                   ELSE UNCHANGED <<gt_result, gt_pc>>
    /\ UNCHANGED <<shared_state, config, config_file, rl_pc, rl_loaded, gt_key, gt_doc,
                   rcVars, connVars, dockerVars, vectorVars, metricsVars, tickVars, awsVars, suricataVars>>

ConfigNext ==
    \/ FileChanges
    \/ LoadConfig
    \/ LoadConfigRaises
    \/ AssignConfig
    \/ GetStart
    \/ GetSegment

(***************************************************************************)
(* AWSManager: the constructor, provision_opensearch_domain,               *)
(* apply_index_template and send_bulk_to_opensearch with its inlined retry *)
(* loop.  The operations of one instance run one after the other.          *)
(***************************************************************************)
BulkMaxRetries == 5
BulkInitialBackoff == 1

NoOp == [name |-> "none", result |-> "none"]

NoBulkResult == [kind |-> "none", value |-> ""]

\* `not x` for a configuration value: None or the empty string
Falsy(v) == v = NoValue \/ v = ""

\* A constructor without the test of the region.
RegionCheckSkipped(region) == FALSE

\* if not self.aws_region
RegionNotConfigured(region) == Falsy(region)

AwsInit ==
    /\ aws_pc = "none"
    /\ aws_region = NoValue
    /\ aws_endpoint = NoValue
    /\ aws_session = "none"
    /\ aws_op = NoOp
    /\ sb_pc = "idle"
    /\ sb_retries = 0
    /\ sb_calls = 0
    /\ sb_waits = <<>>
    /\ sb_last = "none"
    /\ sb_result = NoBulkResult

AwsIdle ==
    /\ aws_pc = "off"
    /\ aws_region = NoValue
    /\ aws_endpoint = NoValue
    /\ aws_session = "none"
    /\ aws_op = NoOp
    /\ sb_pc = "idle"
    /\ sb_retries = 0
    /\ sb_calls = 0
    /\ sb_waits = <<>>
    /\ sb_last = "none"
    /\ sb_result = NoBulkResult

\* AWSManager(config_manager, shared_state).  boto3.Session may raise in
\* _get_aws_session, which re-raises.
Construct ==
    /\ aws_pc \in {"none", "construct_failed"}
    /\ LET region == ConfigGet(config, <<"aws", "region">>, NoValue)
           endpoint == ConfigGet(config, <<"aws", "opensearch_endpoint">>, NoValue)
       IN  IF RegionNotConfigured(region)
           THEN /\ aws_pc' = "construct_failed"
                /\ aws_op' = [name |-> "__init__", result |-> "ValueError"]
                /\ UNCHANGED <<aws_region, aws_endpoint, aws_session>>
           ELSE \E session_ok \in BOOLEAN :
                   IF session_ok
                   THEN /\ aws_pc' = "ready"
                        /\ aws_region' = region
                        /\ aws_endpoint' = endpoint
                        /\ aws_session' = "created"
                        /\ aws_op' = [name |-> "__init__", result |-> "instance"]
                   ELSE /\ aws_pc' = "construct_failed"
                        /\ aws_op' = [name |-> "__init__", result |-> "NoCredentialsError"]
                        /\ UNCHANGED <<aws_region, aws_endpoint, aws_session>>
    /\ UNCHANGED <<shared_state, sb_pc, sb_retries, sb_calls, sb_waits, sb_last, sb_result,
                   rcVars, connVars, dockerVars, vectorVars, metricsVars, tickVars, configVars, suricataVars>>

ProvisionOutcomes == {"active", "not_active", "client_error", "create_failed", "exception"}

\* The last_error of a provisioning that failed.
ProvisionError(outcome) ==
    IF outcome = "not_active" THEN "OpenSearch domain not active after 600s."
    ELSE IF outcome = "client_error" THEN "AWS ClientError: AccessDeniedException"
    ELSE IF outcome = "create_failed" THEN "OpenSearch domain creation failed: ClientError"
    ELSE "OpenSearch provisioning error: Exception"

\* provision_opensearch_domain, with what describe_domain / create_domain answer.
ProvisionOpensearchDomain ==
    /\ aws_pc = "ready"
    /\ sb_pc \in {"idle", "returned"}
    /\ \E outcome \in ProvisionOutcomes :
          IF outcome = "active"
          THEN /\ aws_endpoint' = Endpoint
               /\ config' = [config EXCEPT
                                !["aws"] = StoreSet(@, "opensearch_endpoint", Endpoint)]
               /\ shared_state' = StoreSet(shared_state, "aws_ready", TRUE)
               /\ aws_op' = [name |-> "provision_opensearch_domain", result |-> "True"]
          ELSE /\ shared_state' = StoreSet(StoreSet(shared_state, "aws_ready", FALSE),
                                     "last_error", ProvisionError(outcome))
               /\ aws_op' = [name |-> "provision_opensearch_domain", result |-> "False"]
               /\ UNCHANGED <<aws_endpoint, config>>
    /\ UNCHANGED <<aws_pc, aws_region, aws_session, sb_pc, sb_retries, sb_calls, sb_waits,
                   sb_last, sb_result, config_file, rl_pc, rl_loaded, gt_pc, gt_key, gt_doc,
                   gt_depth, gt_result, rcVars, connVars, dockerVars, vectorVars,
                   metricsVars, tickVars, suricataVars>>

TemplateOutcomes == {"acknowledged", "not_acknowledged", "exception"}

\* apply_index_template
ApplyIndexTemplate ==
    /\ aws_pc = "ready"
    /\ sb_pc \in {"idle", "returned"}
    /\ IF Falsy(aws_endpoint)
       THEN /\ aws_op' = [name |-> "apply_index_template", result |-> "False"]
            /\ UNCHANGED shared_state
       ELSE \E outcome \in TemplateOutcomes :
               IF outcome = "acknowledged"
               THEN /\ aws_op' = [name |-> "apply_index_template", result |-> "True"]
                    /\ UNCHANGED shared_state
               ELSE /\ aws_op' = [name |-> "apply_index_template", result |-> "False"]
                    /\ shared_state' =
                          StoreSet(shared_state, "last_error",
                                   IF outcome = "exception"
                                   THEN "OpenSearch index template error: Exception"
                                   ELSE "OpenSearch index template failed: {}")
    /\ UNCHANGED <<aws_pc, aws_region, aws_endpoint, aws_session, sb_pc, sb_retries, sb_calls,
                   sb_waits, sb_last, sb_result, rcVars, connVars, dockerVars, vectorVars,
                   metricsVars, tickVars, configVars, suricataVars>>

\* The logs handed to send_bulk_to_opensearch: an empty list, a list without any
\* dict, or a list with dicts.
LogBatches == {"empty", "no_dict", "dicts"}

\* What one client.bulk(body=payload) does: a response without errors, a response
\* reporting errors (on some or all documents, or an empty response), or an exception.
BulkOutcomes == {"ok", "errors", "connection_error", "client_error", "exception"}

BulkRaised(outcome) == outcome \in {"connection_error", "client_error", "exception"}

\* The last_error written for a failed call of client.bulk.
BulkError(outcome) ==
    IF outcome = "errors" THEN "OpenSearch bulk error: {errors: true}"
    ELSE IF outcome = "connection_error" THEN "OpenSearch connection error: ConnectionError"
    ELSE IF outcome = "client_error" THEN "AWS ClientError: AccessDenied"
    ELSE "OpenSearch send error: Exception"

\* sleep_time = initial_backoff * (2 ** retries)
BulkSleepTime(r) == BulkInitialBackoff * (2 ^ r)

(***************************************************************************)
(* The retry loop of send_bulk_to_opensearch: what one pass of the while   *)
(* body does with the outcome of client.bulk when `r` retries were counted *)
(* before it.  wait = 0 stands for no sleep.                               *)
(***************************************************************************)
BulkRetryLoop(r, outcome) ==
    IF outcome = "ok"
    THEN [retries |-> r, status |-> "returned",
          result |-> [kind |-> "return", value |-> "True"], wait |-> 0]
    ELSE IF outcome = "errors"
         THEN [retries |-> r, status |-> "returned",
               result |-> [kind |-> "return", value |-> "False"], wait |-> 0]
         ELSE IF r + 1 < BulkMaxRetries
              THEN [retries |-> r + 1, status |-> "pending", result |-> NoBulkResult,
                    wait |-> BulkSleepTime(r + 1)]
              ELSE [retries |-> r + 1, status |-> "returned",
                    result |-> [kind |-> "return", value |-> "False"], wait |-> 0]

\* send_bulk_to_opensearch up to the while loop.
SendBulkStart ==
    /\ aws_pc = "ready"
    /\ sb_pc \in {"idle", "returned"}
    /\ sb_retries' = 0
    /\ sb_calls' = 0
    /\ sb_waits' = <<>>
    /\ sb_last' = "none"
    /\ \E logs \in LogBatches :
          IF Falsy(aws_endpoint)
          THEN /\ shared_state' = StoreSet(StoreSet(shared_state, "aws_ready", FALSE),
                                     "last_error", "OpenSearch endpoint not configured.")
               /\ sb_result' = [kind |-> "return", value |-> "False"]
               /\ sb_pc' = "returned"
          ELSE IF logs # "dicts"
               THEN /\ sb_result' = [kind |-> "return", value |-> "True"]
                    /\ sb_pc' = "returned"
                    /\ UNCHANGED shared_state
               ELSE /\ sb_result' = NoBulkResult
                    /\ sb_pc' = "loop"
                    /\ UNCHANGED shared_state
    /\ aws_op' = [name |-> "send_bulk_to_opensearch",
                  result |-> IF sb_pc' = "returned" THEN sb_result'.value ELSE "none"]
    /\ UNCHANGED <<aws_pc, aws_region, aws_endpoint, aws_session,
                   rcVars, connVars, dockerVars, vectorVars, metricsVars, tickVars, configVars, suricataVars>>

\* One pass of the while loop: a call of client.bulk and what the loop does with it.
SendBulkAttempt ==
    /\ sb_pc = "loop"
    /\ \E outcome \in BulkOutcomes :
          LET e == BulkRetryLoop(sb_retries, outcome)
          IN  /\ shared_state' =
                    IF outcome = "ok"
                    THEN StoreSet(shared_state, "aws_ready", TRUE)
                    ELSE StoreSet(StoreSet(shared_state, "aws_ready", FALSE),
                                  "last_error", BulkError(outcome))
              /\ sb_calls' = sb_calls + 1
              /\ sb_last' = outcome
              /\ sb_retries' = e.retries
              /\ sb_waits' = (IF e.wait = 0 THEN sb_waits ELSE Append(sb_waits, e.wait))
              /\ sb_result' = e.result
              /\ sb_pc' = (IF e.status = "returned" THEN "returned" ELSE "loop")
              /\ aws_op' = [name |-> "send_bulk_to_opensearch",
                            result |-> IF e.status = "returned" THEN e.result.value ELSE "none"]
    /\ UNCHANGED <<aws_pc, aws_region, aws_endpoint, aws_session,
                   rcVars, connVars, dockerVars, vectorVars, metricsVars, tickVars, configVars, suricataVars>>

AwsNext ==
    \/ Construct
    \/ ProvisionOpensearchDomain
    \/ ApplyIndexTemplate
    \/ SendBulkStart
    \/ SendBulkAttempt

(***************************************************************************)
(* SuricataLogMonitor.  The log file is a sequence of whole lines, written *)
(* by Suricata by appending; a position in the file is a number of lines.  *)
(* A line is an alert event, another event ("flow"), an alert event whose  *)
(* timestamp does not parse ("bad_alert"), or JSON that is no object       *)
(* ("scalar").  One monitor is started and stopped at most once and has    *)
(* one consumer of tail_alerts.                                            *)
(***************************************************************************)
MaxLines == 4
MaxStarts == 2
MaxLimit == 2

LineKinds == {"alert", "flow", "bad_alert", "scalar"}

SuricataInit ==
    /\ eve = <<>>
    /\ eve_exists \in BOOLEAN
    /\ sm_running = FALSE
    /\ sm_position = 0
    /\ sm_starts = 0
    /\ sm_stopped = FALSE
    /\ ta_pc = "none"
    /\ ta_i = 0
    /\ ta_tell = -1
    /\ yielded = <<>>
    /\ start_size = -1
    /\ stop_len = -1
    /\ ra_pc = "idle"
    /\ ra_limit = 0
    /\ ra_file = <<>>
    /\ ra_result = <<>>

SuricataIdle ==
    /\ SuricataInit
    /\ eve_exists = FALSE

\* Suricata appends one whole line to the log.
AppendLine ==
    /\ eve_exists
    /\ Len(eve) < MaxLines
    /\ \E kind \in LineKinds : eve' = Append(eve, kind)
    /\ UNCHANGED <<shared_state, eve_exists, sm_running, sm_position, sm_starts, sm_stopped,
                   ta_pc, ta_i, ta_tell, yielded, start_size, stop_len,
                   ra_pc, ra_limit, ra_file, ra_result,
                   rcVars, connVars, dockerVars, vectorVars, metricsVars, tickVars,
                   configVars, awsVars>>

\* A start() that reads from the beginning of the file.
StartFromBeginning ==
    /\ sm_starts < MaxStarts
    /\ ~sm_stopped
    /\ sm_starts' = sm_starts + 1
    /\ IF sm_running \/ ~eve_exists
       THEN UNCHANGED <<sm_running, sm_position, start_size>>
       ELSE /\ sm_running' = TRUE
            /\ sm_position' = 0
            /\ start_size' = Len(eve)
    /\ UNCHANGED <<shared_state, eve, eve_exists, sm_stopped, ta_pc, ta_i, ta_tell, yielded,
                   stop_len, ra_pc, ra_limit, ra_file, ra_result,
                   rcVars, connVars, dockerVars, vectorVars, metricsVars, tickVars,
                   configVars, awsVars>>

\* start()
Start ==
    /\ sm_starts < MaxStarts
    /\ ~sm_stopped
    /\ sm_starts' = sm_starts + 1
    /\ IF sm_running \/ ~eve_exists
       THEN UNCHANGED <<sm_running, sm_position, start_size>>
       ELSE /\ sm_running' = TRUE
            /\ sm_position' = Len(eve)
            /\ start_size' = Len(eve)
    /\ UNCHANGED <<shared_state, eve, eve_exists, sm_stopped, ta_pc, ta_i, ta_tell, yielded,
                   stop_len, ra_pc, ra_limit, ra_file, ra_result,
                   rcVars, connVars, dockerVars, vectorVars, metricsVars, tickVars,
                   configVars, awsVars>>

\* stop(): self._task is never assigned, so only the flag is cleared.
Stop ==
    /\ sm_starts > 0
    /\ ~sm_stopped
    /\ sm_running' = FALSE
    /\ sm_stopped' = TRUE
    /\ stop_len' = Len(yielded)
    /\ UNCHANGED <<shared_state, eve, eve_exists, sm_position, sm_starts, ta_pc, ta_i, ta_tell,
                   yielded, start_size, ra_pc, ra_limit, ra_file, ra_result,
                   rcVars, connVars, dockerVars, vectorVars, metricsVars, tickVars,
                   configVars, awsVars>>

\* The consumer asks tail_alerts() for its first event: the body runs up to the loop.
TailEnter ==
    /\ ta_pc = "none"
    /\ ta_pc' = (IF eve_exists THEN "check" ELSE "done")
    /\ UNCHANGED <<shared_state, eve, eve_exists, sm_running, sm_position, sm_starts,
                   sm_stopped, ta_i, ta_tell, yielded, start_size, stop_len,
                   ra_pc, ra_limit, ra_file, ra_result,
                   rcVars, connVars, dockerVars, vectorVars, metricsVars, tickVars,
                   configVars, awsVars>>

\* while self._running: open, f.seek(self._position), new_lines = f.readlines()
TailRead ==
    /\ ta_pc = "check"
    /\ IF sm_running
       THEN /\ ta_i' = sm_position + 1
            /\ ta_tell' = Len(eve)
            /\ ta_pc' = "batch"
       ELSE /\ ta_pc' = "done"
            /\ UNCHANGED <<ta_i, ta_tell>>
    /\ UNCHANGED <<shared_state, eve, eve_exists, sm_running, sm_position, sm_starts,
                   sm_stopped, yielded, start_size, stop_len, ra_pc, ra_limit, ra_file,
                   ra_result, rcVars, connVars, dockerVars, vectorVars, metricsVars, tickVars,
                   configVars, awsVars>>

\* One pass of `for line in new_lines`, up to the yield for an alert event.
TailLine ==
    /\ ta_pc = "batch"
    /\ ta_i <= ta_tell
    /\ IF eve[ta_i] = "alert"
       THEN /\ yielded' = Append(yielded, ta_i)
            /\ ta_pc' = "yielded"
            /\ UNCHANGED ta_i
       ELSE /\ ta_i' = ta_i + 1
            /\ UNCHANGED <<yielded, ta_pc>>
    /\ UNCHANGED <<shared_state, eve, eve_exists, sm_running, sm_position, sm_starts,
                   sm_stopped, ta_tell, start_size, stop_len, ra_pc, ra_limit, ra_file,
                   ra_result, rcVars, connVars, dockerVars, vectorVars, metricsVars, tickVars,
                   configVars, awsVars>>

\* The consumer asks for the next event: self._position = f.tell()
TailResume ==
    /\ ta_pc = "yielded"
    /\ sm_position' = ta_tell
    /\ ta_i' = ta_i + 1
    /\ ta_pc' = "batch"
    /\ UNCHANGED <<shared_state, eve, eve_exists, sm_running, sm_starts, sm_stopped, ta_tell,
                   yielded, start_size, stop_len, ra_pc, ra_limit, ra_file, ra_result,
                   rcVars, connVars, dockerVars, vectorVars, metricsVars, tickVars,
                   configVars, awsVars>>

\* The batch is exhausted: await asyncio.sleep(0.1) and back to the loop test.
TailSleep ==
    /\ ta_pc = "batch"
    /\ ta_i > ta_tell
    /\ ta_pc' = "check"
    /\ UNCHANGED <<shared_state, eve, eve_exists, sm_running, sm_position, sm_starts,
                   sm_stopped, ta_i, ta_tell, yielded, start_size, stop_len,
                   ra_pc, ra_limit, ra_file, ra_result,
                   rcVars, connVars, dockerVars, vectorVars, metricsVars, tickVars,
                   configVars, awsVars>>

TailNext ==
    \/ AppendLine
    \/ Start
    \/ Stop
    \/ TailEnter
    \/ TailRead
    \/ TailLine
    \/ TailResume
    \/ TailSleep

\* lines[-limit * 2:], as the index of its first line
WindowStart(lines, limit) ==
    IF limit = 0 \/ 2 * limit >= Len(lines) THEN 1 ELSE Len(lines) - 2 * limit + 1

RECURSIVE ScanReversed(_, _, _, _, _)
\* for line in reversed(window): the alerts collected, newest first.  A line that
\* is no JSON object raises AttributeError, which ends the loop in the outer handler.
ScanReversed(lines, i, lo, limit, alerts) ==
    IF i < lo
    THEN alerts
    ELSE IF lines[i] = "alert"
         THEN IF Len(alerts) + 1 >= limit
              THEN Append(alerts, i)
              ELSE ScanReversed(lines, i - 1, lo, limit, Append(alerts, i))
         ELSE IF lines[i] = "scalar"
              THEN alerts
              ELSE ScanReversed(lines, i - 1, lo, limit, alerts)

\* list(reversed(alerts))
Reversed(q) == [i \in 1 .. Len(q) |-> q[Len(q) + 1 - i]]

\* get_recent_alerts(limit) over a file of these lines
GetRecentAlerts(lines, limit) ==
    Reversed(ScanReversed(lines, Len(lines), WindowStart(lines, limit), limit, <<>>))

GetRecentAlertsCall ==
    /\ \E limit \in 0 .. MaxLimit :
          /\ ra_limit' = limit
          /\ ra_result' = (IF eve_exists THEN GetRecentAlerts(eve, limit) ELSE <<>>)
    /\ ra_file' = eve
    /\ ra_pc' = "returned"
    /\ UNCHANGED <<shared_state, eve, eve_exists, sm_running, sm_position, sm_starts,
                   sm_stopped, ta_pc, ta_i, ta_tell, yielded, start_size, stop_len,
                   rcVars, connVars, dockerVars, vectorVars, metricsVars, tickVars,
                   configVars, awsVars>>

RecentNext == AppendLine \/ GetRecentAlertsCall

(***************************************************************************)
(* The specifications: each worker on its own.  The store starts empty (a   *)
(* key is absent until first written) or as the module's own launcher       *)
(* fills it.                                                                *)
(***************************************************************************)
RCInitialStore == [cpu_usage |-> 0, ram_usage |-> 0, throttling_level |-> 0]

ConnInitialStore ==
    [aws_ready |-> FALSE, redis_ready |-> FALSE, pipeline_ok |-> FALSE, last_error |-> ""]

DockerInitialStore == [docker_healthy |-> FALSE, last_error |-> ""]

InitThrottle ==
    /\ shared_state \in {EmptyStore, RCInitialStore}
    /\ RCInit
    /\ ConnIdle
    /\ DockerIdle
    /\ VectorIdle
    /\ MetricsIdle
    /\ TickIdle
    /\ ConfigIdle
    /\ AwsIdle
    /\ SuricataIdle

SpecThrottle == InitThrottle /\ [][RCNext]_vars

InitConn ==
    /\ shared_state \in {EmptyStore, ConnInitialStore}
    /\ RCIdle
    /\ ConnInit
    /\ DockerIdle
    /\ VectorIdle
    /\ MetricsIdle
    /\ TickIdle
    /\ ConfigIdle
    /\ AwsIdle
    /\ SuricataIdle

SpecConn == InitConn /\ [][ConnNext]_vars

InitDocker ==
    /\ shared_state \in {EmptyStore, DockerInitialStore}
    /\ RCIdle
    /\ ConnIdle
    /\ DockerInit
    /\ VectorIdle
    /\ MetricsIdle
    /\ TickIdle
    /\ ConfigIdle
    /\ AwsIdle
    /\ SuricataIdle

SpecDocker == InitDocker /\ [][DockerNext]_vars

(***************************************************************************)
(* The specifications of workers that share the store.  Beside another     *)
(* worker the resource controller keeps its default limits and draws the   *)
(* two extreme readings, and the connectivity checker has no OpenSearch    *)
(* endpoint configured.                                                    *)
(***************************************************************************)
VectorInitialStore == [docker_healthy |-> FALSE, vector_healthy |-> FALSE, last_error |-> ""]

MetricsInitialStore ==
    [cpu_usage |-> 15, ram_usage |-> 30, redis_queue_depth |-> 150, vector_healthy |-> TRUE,
     aws_ready |-> TRUE, redis_ready |-> TRUE, pipeline_ok |-> TRUE, throttling_level |-> 0,
     last_error |-> ""]

RCInitDefault ==
    /\ RCInit
    /\ cpu_limit = DefaultLimit
    /\ ram_limit = DefaultLimit

RCNextCoarse ==
    \/ GetSystemMetricsCoarse
    \/ GetSystemMetricsRaises
    \/ WriteCpuUsage
    \/ WriteRamUsage
    \/ ApplyThrottling
    \/ RCSleep

\* The Docker probe and the Vector health check.
InitHealth ==
    /\ shared_state \in {EmptyStore, DockerInitialStore, VectorInitialStore}
    /\ RCIdle
    /\ ConnIdle
    /\ DockerInit
    /\ VectorInit
    /\ MetricsIdle
    /\ TickIdle
    /\ ConfigIdle
    /\ AwsIdle
    /\ SuricataIdle

SpecHealth == InitHealth /\ [][DockerNext \/ VectorNext]_vars

\* The resource controller, the Vector health check and the metrics exporter.
InitExport ==
    /\ shared_state \in {EmptyStore, MetricsInitialStore}
    /\ RCInitDefault
    /\ ConnIdle
    /\ DockerIdle
    /\ VectorInit
    /\ MetricsInit
    /\ TickIdle
    /\ ConfigIdle
    /\ AwsIdle
    /\ SuricataIdle

SpecExport == InitExport /\ [][RCNextCoarse \/ VectorNext \/ MetricsNext]_vars

\* The connectivity checker without an OpenSearch endpoint, facing a Redis port that
\* may never answer.
InitConnRedisOnly ==
    /\ shared_state \in {EmptyStore, ConnInitialStore}
    /\ RCIdle
    /\ ConnInit
    /\ opensearch_endpoint = NoEndpoint
    /\ DockerIdle
    /\ VectorIdle
    /\ MetricsIdle
    /\ TickIdle
    /\ ConfigIdle
    /\ AwsIdle
    /\ SuricataIdle

SpecConnHang == InitConnRedisOnly /\ [][ConnNextRedisOnly \/ RedisAttemptHangs]_vars

\* The resource controller alone, with the history of its ticks.
InitTicks ==
    /\ shared_state \in {EmptyStore, RCInitialStore}
    /\ RCInitDefault
    /\ ConnIdle
    /\ DockerIdle
    /\ VectorIdle
    /\ MetricsIdle
    /\ TickInit
    /\ ConfigIdle
    /\ AwsIdle
    /\ SuricataIdle

SpecTicks == InitTicks /\ [][TickNext]_vars

\* A ConfigManager whose get and reload_config run concurrently while the file changes.
InitConfig ==
    /\ shared_state = EmptyStore
    /\ RCIdle
    /\ ConnIdle
    /\ DockerIdle
    /\ VectorIdle
    /\ MetricsIdle
    /\ TickIdle
    /\ ConfigInit
    /\ AwsIdle
    /\ SuricataIdle

SpecConfig == InitConfig /\ [][ConfigNext]_vars

\* An AWSManager over a loaded configuration.
AwsInitialStore == [aws_ready |-> FALSE, last_error |-> ""]

InitAws ==
    /\ shared_state \in {EmptyStore, AwsInitialStore}
    /\ RCIdle
    /\ ConnIdle
    /\ DockerIdle
    /\ VectorIdle
    /\ MetricsIdle
    /\ TickIdle
    /\ ConfigLoaded
    /\ AwsInit
    /\ SuricataIdle

SpecAws == InitAws /\ [][AwsNext]_vars

\* Every worker that probes a component, each run on its own over its store.
InitProbes == InitConn \/ InitHealth \/ InitAws

ProbesNext == ConnNext \/ DockerNext \/ VectorNext \/ AwsNext

SpecProbes == InitProbes /\ [][ProbesNext]_vars

\* A SuricataLogMonitor with its one consumer, while Suricata writes the log.
InitSuricata ==
    /\ shared_state = EmptyStore
    /\ RCIdle
    /\ ConnIdle
    /\ DockerIdle
    /\ VectorIdle
    /\ MetricsIdle
    /\ TickIdle
    /\ ConfigIdle
    /\ AwsIdle
    /\ SuricataInit

SpecTail == InitSuricata /\ [][TailNext]_vars

SpecRecent == InitSuricata /\ [][RecentNext]_vars

\* The resource controller and the connectivity checker.
InitWriters ==
    /\ shared_state \in {EmptyStore, RCInitialStore, ConnInitialStore}
    /\ RCInitDefault
    /\ ConnInit
    /\ opensearch_endpoint = NoEndpoint
    /\ DockerIdle
    /\ VectorIdle
    /\ MetricsIdle
    /\ TickIdle
    /\ ConfigIdle
    /\ AwsIdle
    /\ SuricataIdle

SpecWriters == InitWriters /\ [][RCNextCoarse \/ ConnNextRedisOnly]_vars

(***************************************************************************)
(* Claims about the resource controller.                                   *)
(***************************************************************************)
\* The level as the specification states it: a flat chain of strict comparisons.
ReferenceLevel(cpu, ram, cl, rl) ==
    IF cpu > cl + 10 \/ ram > rl + 10 THEN 3
    ELSE IF cpu > cl + 5 \/ ram > rl + 5 THEN 2
    ELSE IF cpu > cl \/ ram > rl THEN 1
    ELSE 0

\* C1: after _apply_throttling, shared_state['throttling_level'] is the reference
\* level of the sample and the two limits (3 above limit+10, 2 above limit+5, 1 above
\* the limit, else 0, all strict); with limits 70/70 the samples (71,0), (76,0),
\* (81,0), (70,70) publish 1, 2, 3, 0.
C1_ThrottlingLevelIsReference ==
    rc_pc = "sleep" =>
        /\ shared_state["throttling_level"] = ReferenceLevel(rc_cpu, rc_ram, cpu_limit, ram_limit)
        /\ throttling_level = shared_state["throttling_level"]
        /\ (cpu_limit = 70 /\ ram_limit = 70) =>
              /\ (rc_cpu = 71 /\ rc_ram = 0) => shared_state["throttling_level"] = 1
              /\ (rc_cpu = 76 /\ rc_ram = 0) => shared_state["throttling_level"] = 2
              /\ (rc_cpu = 81 /\ rc_ram = 0) => shared_state["throttling_level"] = 3
              /\ (rc_cpu = 70 /\ rc_ram = 70) => shared_state["throttling_level"] = 0

C1_Witness ==
    /\ rc_pc = "sleep"
    /\ cpu_limit = 70
    /\ ram_limit = 70
    /\ rc_cpu = 76
    /\ rc_ram = 0
    /\ shared_state["throttling_level"] = 2

(***************************************************************************)
(* Claims about the connectivity checker.                                  *)
(***************************************************************************)
ReturnedTrue(r) == r.kind = "return" /\ r.value = "True"

Finished(t) == status[t] \in {"returned", "raised"}

\* C2: the pipeline_ok written at the end of a cycle is true if and only if every
\* check launched in the cycle returned True; a check that raised counts as false.
C2_PipelineOkIffEveryCheckTrue ==
    conn_pc = "sleep" =>
        (shared_state["pipeline_ok"] <=> \A t \in tasks : ReturnedTrue(result[t]))

\* C3: one invocation of _retry_operation calls the check at most max_retries (5)
\* times; when every attempt raised it made exactly max_retries calls and then
\* re-raised the error of the last attempt.
C3_AtMostMaxRetriesThenReraise ==
    \A t \in Checks :
        /\ calls[t] <= 5
        /\ calls[t] <= MaxRetries
        /\ (Finished(t) /\ last_outcome[t].kind = "raise") =>
              /\ status[t] = "raised"
              /\ calls[t] = MaxRetries
              /\ result[t] = last_outcome[t]
              /\ result[t].attempt = MaxRetries
        /\ status[t] = "raised" => (calls[t] = MaxRetries /\ result[t] = last_outcome[t])

C3_Witness ==
    \E t \in Checks :
        /\ status[t] = "raised"
        /\ calls[t] = 5
        /\ result[t].kind = "raise"
        /\ result[t].attempt = 5

\* C4: the wait after the k-th failed attempt (k < max_retries) is
\* initial_backoff * 2^k, uncapped: 2, 4, 8, 16 for the defaults; one wait follows
\* each failed attempt but the last.
C4_ExponentialBackoff ==
    \A t \in Checks :
        /\ \A k \in 1..Len(waits[t]) : waits[t][k] = InitialBackoff * (2 ^ k)
        /\ status[t] = "pending" => Len(waits[t]) = calls[t]
        /\ status[t] = "returned" => Len(waits[t]) = calls[t] - 1
        /\ status[t] = "raised" => waits[t] = <<2, 4, 8, 16>>

C4_Witness ==
    \E t \in Checks : status[t] = "raised" /\ waits[t] = <<2, 4, 8, 16>>

\* C5: when an attempt succeeds, _retry_operation returns that attempt's result at
\* once; afterwards the check is not called again and no backoff wait is added.
C5_ReturnsFirstSuccessAtOnce ==
    /\ [](\A t \in Checks :
            last_outcome[t].kind = "return" =>
                /\ status[t] = "returned"
                /\ result[t] = last_outcome[t]
                /\ Len(waits[t]) = calls[t] - 1)
    /\ [][\A t \in Checks :
            (status[t] = "returned" /\ conn_pc = "gather") =>
                /\ calls'[t] = calls[t]
                /\ waits'[t] = waits[t]
                /\ status'[t] = "returned"]_vars

C5_Witness ==
    \E t \in Checks :
        /\ status[t] = "returned"
        /\ calls[t] = 3
        /\ Len(waits[t]) = 2
        /\ ReturnedTrue(result[t])

\* C6: pipeline_ok is written only once every launched check has finished; a check
\* that failed did not cut a sibling short: each sibling either returned from its
\* own call or made all max_retries attempts.
C6_GatherWaitsForEveryCheck ==
    conn_pc = "sleep" =>
        \A t \in tasks :
            /\ Finished(t)
            /\ status[t] = "raised" => calls[t] = MaxRetries
            /\ status[t] = "returned" => last_outcome[t].kind = "return"

C6_Witness ==
    /\ conn_pc = "sleep"
    /\ status["tls"] = "raised"
    /\ status["redis"] = "raised"
    /\ calls["redis"] = 5
    /\ status["bulk"] = "returned"
    /\ calls["bulk"] = 2

ReadinessKey(t) == IF t = "redis" THEN "redis_ready" ELSE "aws_ready"

FailedOutcome(o) == o.kind = "raise" \/ (o.kind = "return" /\ o.value = "False")

\* C7: whenever a call of one of the four checks fails, the readiness key of the
\* probed service is false in the store and last_error holds a description.
C7_FailureClearsReadiness ==
    [][\A t \in Checks :
          (calls'[t] = calls[t] + 1 /\ FailedOutcome(last_outcome'[t])) =>
              /\ ReadinessKey(t) \in DOMAIN shared_state'
              /\ shared_state'[ReadinessKey(t)] = FALSE
              /\ "last_error" \in DOMAIN shared_state']_vars

\* C8 as stated: the HTTP health call succeeds iff the status is 200 and reports
\* every other status and every transport error as the value False, never raising.
C8_NeverRaises ==
    calls["bulk"] > 0 =>
        /\ last_outcome["bulk"].kind = "return"
        /\ ReturnedTrue(last_outcome["bulk"])
              <=> (last_input["bulk"].event = "response" /\ last_input["bulk"].status = 200)
        /\ shared_state["aws_ready"] = ReturnedTrue(last_outcome["bulk"])

\* C8 amended: status 200 returns True with aws_ready true; any other status returns
\* False with aws_ready false; a transport error sets aws_ready false and is
\* re-raised to the retry executor.
C8_Status200OrFalseOrReraise ==
    calls["bulk"] > 0 =>
        LET i == last_input["bulk"]
            o == last_outcome["bulk"]
        IN  /\ ReturnedTrue(o) <=> (i.event = "response" /\ i.status = 200)
            /\ (o.kind = "return" /\ o.value = "False")
                  <=> (i.event = "response" /\ i.status # 200)
            /\ o.kind = "raise" <=> i.event # "response"
            /\ shared_state["aws_ready"] = ReturnedTrue(o)

C8_Witness ==
    /\ calls["bulk"] > 0
    /\ last_input["bulk"].event = "client_error"
    /\ last_outcome["bulk"].kind = "raise"
    /\ shared_state["aws_ready"] = FALSE

\* C9: when a call of check_tls_handshake or check_redis_connectivity has ended, a
\* connection it opened has had close requested, also when closing failed.
C9_NoConnectionLeftOpen ==
    \A t \in {"tls", "redis"} :
        /\ conn[t] # "open"
        /\ (calls[t] > 0 /\ last_input[t].event = "connect_error") => conn[t] = "none"
        /\ (calls[t] > 0 /\ last_input[t].event = "close_error") => conn[t] = "closing"
        /\ (calls[t] > 0 /\ last_input[t].event = "ok") => conn[t] = "closed"

C9_Witness ==
    /\ calls["tls"] > 0
    /\ last_input["tls"].event = "close_error"
    /\ conn["tls"] = "closing"
    /\ calls["redis"] > 0
    /\ conn["redis"] = "closed"

(***************************************************************************)
(* Claims about the Docker stack health probe.                             *)
(***************************************************************************)
AllServicesRunning == \A s \in {"vector", "redis", "prometheus", "grafana"} : containers[s] = "running"

\* C10: with the daemon reachable, check_stack_health writes docker_healthy = true
\* and returns True iff all four required services are running; otherwise it writes
\* docker_healthy = false, sets last_error and returns False.
C10_HealthyIffAllRunning ==
    (dk_pc = "returned" /\ daemon_ok) =>
        /\ dk_result = "True" <=> AllServicesRunning
        /\ dk_result = "False" <=> ~AllServicesRunning
        /\ shared_state["docker_healthy"] = AllServicesRunning
        /\ ~AllServicesRunning => shared_state["last_error"] = "Docker stack not healthy."

C10_Witness ==
    /\ dk_pc = "returned"
    /\ daemon_ok
    /\ containers["vector"] = "running"
    /\ containers["redis"] = "running"
    /\ containers["prometheus"] = "running"
    /\ containers["grafana"] = "exited"
    /\ dk_result = "False"
    /\ shared_state["docker_healthy"] = FALSE


(***************************************************************************)
(* Claims about the order of the Docker queries.                           *)
(***************************************************************************)
\* C11: check_stack_health queries the services in the fixed order vector, redis,
\* prometheus, grafana and stops at the first one that is not running, not found or
\* raising: every service queried in a call sits at its place of that order, and
\* every service queried before it answered "running".
C11_QueriesInOrderStopAtFirstFailure ==
    /\ Len(queried) <= 4
    /\ \A i \in 1..Len(queried) :
          /\ queried[i] = <<"vector", "redis", "prometheus", "grafana">>[i]
          /\ \A j \in 1..(i - 1) : containers[queried[j]] = "running"

C11_Witness ==
    /\ dk_pc = "returned"
    /\ daemon_ok
    /\ queried = <<"vector", "redis">>
    /\ containers["redis"] = "error"
    /\ containers["prometheus"] = "running"
    /\ containers["grafana"] = "running"

(***************************************************************************)
(* Claims about the Vector health check.                                   *)
(***************************************************************************)
\* The store entry with an absent key read as false.
StoredBoolean(store, k) == IF k \in DOMAIN store THEN store[k] ELSE FALSE

\* C12: check_vector_health reads docker_healthy once (absent read as false), writes
\* that value to vector_healthy and returns it; when the call returns and no write to
\* docker_healthy happened since its read, vector_healthy equals docker_healthy.
C12_VectorHealthFollowsDockerHealthy ==
    /\ [](vh_pc \in {"write_error", "returned"} =>
             /\ "vector_healthy" \in DOMAIN shared_state
             /\ shared_state["vector_healthy"] = vh_read)
    /\ [](vh_pc = "returned" => vh_result = (IF vh_read THEN "True" ELSE "False"))
    /\ [][(vh_pc # "write" /\ vh_pc' = "write") =>
             vh_read' = StoredBoolean(shared_state, "docker_healthy")]_vars
    /\ [][(vh_pc # "returned" /\ vh_pc' = "returned" /\ ~dh_written') =>
             StoredBoolean(shared_state', "vector_healthy")
                = StoredBoolean(shared_state', "docker_healthy")]_vars

\* A docker_healthy write between the read and the write left vector_healthy stale.
C12_Witness ==
    /\ vh_pc = "returned"
    /\ dh_written
    /\ vh_result = "False"
    /\ dk_pc = "returned"
    /\ dk_result = "True"
    /\ "docker_healthy" \in DOMAIN shared_state
    /\ shared_state["docker_healthy"] = TRUE
    /\ shared_state["vector_healthy"] = FALSE

(***************************************************************************)
(* Claims about the metrics exporter.                                      *)
(***************************************************************************)
\* A step of MetricsServer.run.
ExporterStep == ms_pc' # ms_pc \/ gauges' # gauges \/ counters' # counters

\* C13: no step of MetricsServer.run or _update_metrics adds, removes or overwrites
\* a key of shared_state, whatever the other workers do between its steps.
C13_ExporterNeverWritesStore ==
    [][ExporterStep => shared_state' = shared_state]_vars

C13_Witness ==
    /\ ms_pc = "sleep"
    /\ rc_pc = "sleep"
    /\ "cpu_usage" \in DOMAIN shared_state
    /\ shared_state["cpu_usage"] = HighSample
    /\ gauges["ids2_cpu_usage_percent"] = shared_state["cpu_usage"]
    /\ "redis_queue_depth" \notin DOMAIN shared_state
    /\ "aws_ready" \notin DOMAIN shared_state

\* C14: export is idempotent: an _update_metrics over a store that nobody writes
\* leaves every gauge as a previous one over the same store left it, a statement that
\* sets a gauge to the value it already holds changes no gauge, and the counters
\* ids2_ingestion_rate_total and ids2_error_total never move.
C14_ExportIsIdempotent ==
    /\ [](LET once == UpdateMetrics(gauges, shared_state)
          IN  UpdateMetrics(once, shared_state) = once)
    /\ [][(/\ ms_pc \in ExportedKeys
           /\ ms_pc' \notin {ms_pc, "crashed"}
           /\ gauges[Exported[ExportIndex(ms_pc)].metric]
                 = ExportedValue(shared_state, Exported[ExportIndex(ms_pc)]))
             => gauges' = gauges]_vars
    /\ [](counters = [m \in {"ids2_ingestion_rate_total", "ids2_error_total"} |-> 0])

C14_Witness ==
    /\ ms_pc = "sleep"
    /\ rc_pc = "sleep"
    /\ gauges["ids2_cpu_usage_percent"] = HighSample
    /\ gauges["ids2_ram_usage_percent"] = HighSample
    /\ gauges["ids2_throttling_level"] = 3
    /\ gauges = UpdateMetrics([m \in GaugeNames |-> 0], shared_state)

\* The metric that exports store key k.
MetricOf(k) == Exported[ExportIndex(k)].metric

\* The value a metric mirroring store key k would hold.
Mirrored(store, k) ==
    IF Exported[ExportIndex(k)].kind = "boolean"
    THEN IF store[k] THEN 1 ELSE 0
    ELSE store[k]

\* C15: after each export cycle every key held in the store (docker_healthy and
\* last_error included) has an exported metric, and that metric mirrors the current
\* value of the key.
C15_EveryFieldHasMirroringMetric ==
    ms_pc = "sleep" =>
        \A k \in DOMAIN shared_state :
            /\ k \in ExportedKeys
            /\ gauges[MetricOf(k)] = Mirrored(shared_state, k)

(***************************************************************************)
(* Claims about the shared state store.                                    *)
(***************************************************************************)
\* C16: read-after-write for a single key: when the exporter reads a key whose last
\* write was the one its single writer just made (cpu_usage, ram_usage and
\* throttling_level by the resource controller, vector_healthy by the Vector check),
\* the read returns exactly the written value.
C16_ReadAfterWrite ==
    [][(ms_pc \in ExportedKeys /\ ms_pc' \notin {ms_pc, "crashed"}) =>
          /\ (ms_pc = "cpu_usage" /\ rc_pc \in {"write_ram", "throttle", "sleep"})
                => gauges'["ids2_cpu_usage_percent"] = rc_cpu
          /\ (ms_pc = "ram_usage" /\ rc_pc \in {"throttle", "sleep"})
                => gauges'["ids2_ram_usage_percent"] = rc_ram
          /\ (ms_pc = "throttling_level" /\ rc_pc = "sleep")
                => gauges'["ids2_throttling_level"] = throttling_level
          /\ (ms_pc = "vector_healthy" /\ vh_pc \in {"write_error", "returned"})
                => gauges'["ids2_vector_health"] = (IF vh_read THEN 1 ELSE 0)]_vars

C16_Witness ==
    /\ ms_pc = "ram_usage"
    /\ rc_pc = "write_ram"
    /\ rc_cpu = HighSample
    /\ "cpu_usage" \in DOMAIN shared_state
    /\ shared_state["cpu_usage"] = HighSample
    /\ gauges["ids2_cpu_usage_percent"] = HighSample

\* The keys each worker writes.
RCKeys == {"cpu_usage", "ram_usage", "throttling_level"}

ConnKeys == {"aws_ready", "redis_ready", "pipeline_ok", "last_error"}

Holds(store, k, v) == k \in DOMAIN store /\ store[k] = v

\* C17: writes of two workers to different keys never lose an update: beside the
\* connectivity checker every key the resource controller wrote still holds the value
\* it wrote, pipeline_ok holds what the checker wrote beside the controller, and a step
\* of one worker never removes a key nor changes a key of the other worker.
C17_NoLostUpdateAcrossKeys ==
    /\ [](rc_pc \in {"write_ram", "throttle", "sleep"} => Holds(shared_state, "cpu_usage", rc_cpu))
    /\ [](rc_pc \in {"throttle", "sleep"} => Holds(shared_state, "ram_usage", rc_ram))
    /\ [](rc_pc = "sleep" => Holds(shared_state, "throttling_level", throttling_level))
    /\ [](conn_pc = "sleep" => Holds(shared_state, "pipeline_ok", PipelineOk))
    /\ [][\A k \in DOMAIN shared_state :
             /\ k \in DOMAIN shared_state'
             /\ (rc_pc' # rc_pc /\ k \notin RCKeys) => shared_state'[k] = shared_state[k]
             /\ (rc_pc' = rc_pc /\ k \notin ConnKeys) => shared_state'[k] = shared_state[k]]_vars

C17_Witness ==
    /\ rc_pc = "sleep"
    /\ conn_pc = "sleep"
    /\ Holds(shared_state, "throttling_level", 3)
    /\ Holds(shared_state, "cpu_usage", HighSample)
    /\ Holds(shared_state, "pipeline_ok", TRUE)
    /\ Holds(shared_state, "redis_ready", TRUE)

\* The complete messages the Docker probe and the Vector check write to last_error.
DockerMessages == {"Docker daemon not accessible: DockerException", "Docker stack not healthy."}

VectorMessages == {"Vector container not healthy."}

\* C18: when the Docker probe and the Vector check write last_error concurrently, the
\* store always holds one complete message (or the launcher's empty string), and a
\* write leaves exactly the message of the probe that made it (last writer wins).
C18_LastErrorIsOneCompleteMessage ==
    /\ []("last_error" \in DOMAIN shared_state =>
             shared_state["last_error"] \in ({""} \cup DockerMessages \cup VectorMessages))
    /\ [][(/\ "last_error" \in DOMAIN shared_state'
           /\ ~Holds(shared_state, "last_error", shared_state'["last_error"]))
             => IF vh_pc' # vh_pc
                THEN shared_state'["last_error"] \in VectorMessages
                ELSE shared_state'["last_error"] \in DockerMessages]_vars

C18_Witness ==
    /\ vh_pc = "returned"
    /\ vh_result = "False"
    /\ dh_written
    /\ dk_pc = "returned"
    /\ dk_result = "False"
    /\ daemon_ok
    /\ Holds(shared_state, "last_error", "Vector container not healthy.")

\* C19: a reader treats a key that was never written as unknown, not as false: after
\* an export the gauge of an absent aws_ready, redis_ready, vector_healthy or
\* pipeline_ok is not 0, and check_vector_health does not return False when
\* docker_healthy was absent at its read.
C19_AbsentKeyIsNotFalse ==
    /\ ms_pc = "sleep" =>
          \A k \in {"aws_ready", "redis_ready", "vector_healthy", "pipeline_ok"} :
              k \notin DOMAIN shared_state => gauges[MetricOf(k)] # 0
    /\ (vh_pc = "returned" /\ ~vh_present) => vh_result # "False"

(***************************************************************************)
(* Claims about the worker loops.                                          *)
(***************************************************************************)
\* C20: every worker loop survives an error in one iteration: no exception of a
\* resource sample or of a store read leaves the loop and ends the worker.
C20_NoExceptionEndsWorker ==
    /\ rc_pc # "crashed"
    /\ ms_pc # "crashed"

\* C21: when the resource sample of a tick fails, the store keeps the
\* throttling_level the previous tick published: the failing step writes nothing
\* (no reset to 0, no level of a missing sample), and afterwards the stored level is
\* still the last level the controller computed.
C21_FailedSampleHoldsLevel ==
    /\ [](rc_pc = "crashed" =>
             ("throttling_level" \in DOMAIN shared_state
                 => shared_state["throttling_level"] = throttling_level))
    /\ [][(rc_pc # "crashed" /\ rc_pc' = "crashed") => shared_state' = shared_state]_vars

C21_Witness ==
    /\ rc_pc = "crashed"
    /\ rc_cpu = DefaultLimit + SevereOffset + 1
    /\ Holds(shared_state, "throttling_level", 3)
    /\ Holds(shared_state, "cpu_usage", rc_cpu)

(***************************************************************************)
(* Claims about the connectivity cycle.                                    *)
(***************************************************************************)
\* C22: every attempt of every check is bounded by a per-attempt timeout: no check
\* is ever left waiting inside a call for an endpoint that never answers, so the
\* gather of the cycle can always end.
C22_EveryAttemptIsBounded ==
    \A t \in Checks : status[t] # "hung"

\* C30: pipeline_ok covers exactly the checks of the active topology: a cycle with no
\* endpoint configured launches only the Redis check, the pipeline_ok it writes is
\* true exactly when that check returned True, and no step of it writes aws_ready;
\* a cycle with an endpoint launches all four checks.
C30_PipelineOkCoversActiveTopology ==
    [][/\ (conn_pc = "launch" /\ conn_pc' = "gather") =>
             tasks' = (IF opensearch_endpoint = NoEndpoint
                       THEN {"redis"}
                       ELSE {"dns", "tls", "bulk", "redis"})
       /\ (conn_pc = "gather" /\ conn_pc' = "sleep" /\ opensearch_endpoint = NoEndpoint) =>
             Holds(shared_state', "pipeline_ok", ReturnedTrue(result["redis"]))
       /\ opensearch_endpoint = NoEndpoint =>
             /\ ("aws_ready" \in DOMAIN shared_state') = ("aws_ready" \in DOMAIN shared_state)
             /\ "aws_ready" \in DOMAIN shared_state =>
                   shared_state'["aws_ready"] = shared_state["aws_ready"]]_vars


(***************************************************************************)
(* C27: the level published on a tick is a function of that tick's sample  *)
(* and the two limits only.  Whatever the earlier ticks sampled and        *)
(* published, a tick that draws the sample of the first tick publishes the *)
(* level the first tick published, and the step that publishes writes the  *)
(* level of the current sample without looking at the level before it.     *)
(***************************************************************************)
C27_LevelHasNoMemory ==
    /\ []((rc_pc = "sleep" /\ first_level # -1 /\ rc_cpu = first_cpu /\ rc_ram = first_ram)
            => Holds(shared_state, "throttling_level", first_level))
    /\ [][(rc_pc = "throttle" /\ rc_pc' = "sleep")
            => /\ throttling_level' = ReferenceLevel(rc_cpu, rc_ram, cpu_limit, ram_limit)
               /\ Holds(shared_state', "throttling_level",
                        ReferenceLevel(rc_cpu, rc_ram, cpu_limit, ram_limit))]_vars

\* Level 0 published right after a tick of level 3, by a tick that draws the
\* sample of the first tick.
C27_Witness ==
    /\ rc_pc = "sleep"
    /\ first_level = 0
    /\ rc_cpu = first_cpu
    /\ rc_ram = first_ram
    /\ prev_cpu = DefaultLimit + SevereOffset + 1
    /\ Holds(shared_state, "throttling_level", 0)

(***************************************************************************)
(* C28: with the controller as the only writer, at the end of a tick the   *)
(* stored throttling_level is the level of the stored (cpu_usage,          *)
(* ram_usage) pair; between the sampling and the publication of a tick     *)
(* that has a predecessor the stored level is the level of the preceding   *)
(* tick's sample, and from the publication on it is the level of the       *)
(* current one.                                                            *)
(***************************************************************************)
C28_StoredLevelAtMostOneTickOld ==
    /\ rc_pc = "sleep"
          => /\ {"cpu_usage", "ram_usage", "throttling_level"} \subseteq DOMAIN shared_state
             /\ shared_state["throttling_level"] =
                   ReferenceLevel(shared_state["cpu_usage"], shared_state["ram_usage"],
                                  cpu_limit, ram_limit)
    /\ (rc_pc \in {"write_cpu", "write_ram", "throttle"} /\ prev_cpu # -1)
          => Holds(shared_state, "throttling_level",
                   ReferenceLevel(prev_cpu, prev_ram, cpu_limit, ram_limit))
    /\ (rc_pc \in {"sleep", "sample"} /\ sampled)
          => Holds(shared_state, "throttling_level",
                   ReferenceLevel(rc_cpu, rc_ram, cpu_limit, ram_limit))

\* A reader between two writes of a tick: the cpu_usage of the current sample
\* beside the level of the preceding one.
C28_Witness ==
    /\ rc_pc = "write_ram"
    /\ prev_cpu = 0
    /\ prev_ram = 0
    /\ rc_cpu = DefaultLimit + SevereOffset + 1
    /\ Holds(shared_state, "cpu_usage", DefaultLimit + SevereOffset + 1)
    /\ Holds(shared_state, "throttling_level", 0)


(***************************************************************************)
(* C24: reload_config replaces the configuration in one assignment.  The   *)
(* configuration in force is always one whole document of the file; it     *)
(* changes only by the assignment of a completely loaded document; a get   *)
(* resolves every segment of its key against the one document it took at   *)
(* its start, so what it returns is what that document gives for the key;  *)
(* and a reload whose loading raises leaves the configuration as it was.   *)
(***************************************************************************)
C24_ReloadReplacesAtomically ==
    /\ [](/\ config \in Docs
          /\ gt_pc \in {"walk", "returned"} => gt_doc \in Docs
          /\ gt_pc = "returned" => gt_result = ConfigGet(gt_doc, gt_key, NoValue))
    /\ [][/\ config' # config => (rl_pc = "loaded" /\ rl_pc' = "done" /\ config' = rl_loaded)
          /\ (gt_pc = "walk" /\ gt_pc' \in {"walk", "returned"}) => gt_doc' = gt_doc
          /\ (rl_pc # "raised" /\ rl_pc' = "raised") => config' = config]_vars

\* A get that began on the launcher's document returned its region after a reload
\* had put another document in force, and a later reload of a missing file raised.
C24_Witness ==
    /\ gt_pc = "returned"
    /\ gt_key = <<"aws", "region">>
    /\ gt_doc = DocLauncher
    /\ gt_result = "eu-central-1"
    /\ config = DocEndpoint
    /\ rl_pc = "raised"
    /\ config_file.state = "missing"


(***************************************************************************)
(* C23: the configuration in memory is read-only for every operation but   *)
(* reload_config: a step that changes it is the assignment of reload_config*)
(* and no operation of AWSManager changes any entry of it.                 *)
(***************************************************************************)
C23_ConfigChangesOnlyByReload ==
    [][config' # config => (rl_pc = "loaded" /\ rl_pc' = "done" /\ config' = rl_loaded)]_vars

(***************************************************************************)
(* C25: a bulk response that reports errors is never a success, sets       *)
(* aws_ready false and last_error, and is handled by the retry loop as a   *)
(* failed attempt like a raised one: it counts one retry and, below        *)
(* max_retries, the loop goes on to the next attempt.                      *)
(***************************************************************************)
C25_ErrorsResponseIsRetried ==
    [][(sb_pc = "loop" /\ sb_calls' = sb_calls + 1 /\ sb_last' = "errors")
          => /\ sb_result'.value # "True"
             /\ Holds(shared_state', "aws_ready", FALSE)
             /\ "last_error" \in DOMAIN shared_state'
             /\ sb_retries' = sb_retries + 1
             /\ sb_retries' <= BulkMaxRetries
             /\ sb_retries' < BulkMaxRetries => sb_pc' = "loop"]_vars

(***************************************************************************)
(* C26: constructing AWSManager when aws.region is absent or empty raises  *)
(* before a session is created: no instance results, no session exists and *)
(* the store is as it was.                                                 *)
(***************************************************************************)
RegionAbsent ==
    LET region == ConfigGet(config, <<"aws", "region">>, NoValue)
    IN  region = NoValue \/ region = ""

C26_NoRegionNoInstance ==
    /\ [](RegionAbsent => (aws_pc \in {"none", "construct_failed"} /\ aws_session = "none"))
    /\ [][(RegionAbsent /\ aws_pc \in {"none", "construct_failed"})
             => /\ aws_pc' = "construct_failed"
                /\ aws_op' = [name |-> "__init__", result |-> "ValueError"]
                /\ aws_session' = "none"
                /\ shared_state' = shared_state]_vars

\* The constructor raised ValueError over a configuration without aws section.
C26_Witness ==
    /\ config = DocNoAws
    /\ aws_pc = "construct_failed"
    /\ aws_op = [name |-> "__init__", result |-> "ValueError"]
    /\ aws_session = "none"
    /\ shared_state = AwsInitialStore

(***************************************************************************)
(* C29: when every attempt raises, the loop of send_bulk_to_opensearch and *)
(* _retry_operation with the same cap and initial backoff make the same    *)
(* number of attempts, the same waits between them, and hand the final     *)
(* failure to the caller in the same way.                                  *)
(***************************************************************************)
RECURSIVE ExecutorAllRaise(_, _, _)
\* _retry_operation run to its end over a func that always raises.
ExecutorAllRaise(r, n, slept) ==
    LET e == RetryOperation(r, Raises("Exception"), n)
    IN  IF e.status = "pending"
        THEN ExecutorAllRaise(e.retries, n + 1, Append(slept, e.wait))
        ELSE [calls |-> n, waits |-> slept, kind |-> e.result.kind]

C29_BulkLoopEqualsExecutor ==
    (sb_pc = "returned" /\ sb_calls = BulkMaxRetries /\ BulkRaised(sb_last) /\ Len(sb_waits) = BulkMaxRetries - 1)
        => LET x == ExecutorAllRaise(0, 1, <<>>)
           IN  /\ BulkMaxRetries = MaxRetries
               /\ BulkInitialBackoff = InitialBackoff
               /\ sb_calls = x.calls
               /\ sb_waits = x.waits
               /\ sb_result.kind = x.kind


(***************************************************************************)
(* C31: at the end of a connectivity cycle a verdict pipeline_ok = true    *)
(* comes with redis_ready = true and, when an OpenSearch endpoint is       *)
(* configured, with aws_ready = true.                                      *)
(***************************************************************************)
C31_VerdictAgreesWithReadinessKeys ==
    (conn_pc = "sleep" /\ Holds(shared_state, "pipeline_ok", TRUE))
        => /\ Holds(shared_state, "redis_ready", TRUE)
           /\ opensearch_endpoint # NoEndpoint => Holds(shared_state, "aws_ready", TRUE)

(***************************************************************************)
(* C32: after a check_stack_health that returned False the store holds     *)
(* docker_healthy = false, the unreachable daemon included.                *)
(***************************************************************************)
C32_FailedHealthCheckClearsDockerHealthy ==
    (dk_pc = "returned" /\ dk_result = "False") => Holds(shared_state, "docker_healthy", FALSE)


(***************************************************************************)
(* C34: the retry executor retries on exceptions only.  An attempt of the  *)
(* HTTP health call that is answered with a status other than 200 returns  *)
(* False and ends the check at once: no retry is counted, no backoff is    *)
(* slept, no further attempt is made in the cycle; so a check whose first  *)
(* attempt is answered that way is attempted exactly once.  A check that   *)
(* ends by raising was attempted max_retries times.                        *)
(***************************************************************************)
C34_FalseReturnIsNotRetried ==
    /\ []((status["bulk"] = "returned" /\ result["bulk"].value = "False" /\ result["bulk"].attempt = 1)
             => (calls["bulk"] = 1 /\ waits["bulk"] = <<>> /\ retries["bulk"] = 0))
    /\ [](status["bulk"] = "raised"
             => (calls["bulk"] = MaxRetries /\ Len(waits["bulk"]) = MaxRetries - 1))
    /\ [][(/\ calls'["bulk"] = calls["bulk"] + 1
           /\ last_input'["bulk"].event = "response"
           /\ last_input'["bulk"].status # 200)
             => /\ status'["bulk"] = "returned"
                /\ result'["bulk"].kind = "return"
                /\ result'["bulk"].value = "False"
                /\ retries'["bulk"] = retries["bulk"]
                /\ waits'["bulk"] = waits["bulk"]]_vars
    /\ [][(status["bulk"] = "returned" /\ result["bulk"].value = "False" /\ conn_pc = "gather")
             => calls'["bulk"] = calls["bulk"]]_vars

\* The health call was answered 201 on its first attempt: one attempt, no wait.
C34_Witness ==
    /\ status["bulk"] = "returned"
    /\ calls["bulk"] = 1
    /\ last_input["bulk"] = [event |-> "response", status |-> 201]
    /\ result["bulk"].value = "False"
    /\ waits["bulk"] = <<>>


(***************************************************************************)
(* C35: for the limits of the controller, the level of a sample is one of  *)
(* 0, 1, 2, 3, it is 0 exactly when neither reading exceeds its limit, and *)
(* a sample with a higher CPU reading or a higher RAM reading than the     *)
(* current one never has a lower level than the current one; the level     *)
(* published at the end of a tick is that level.                           *)
(***************************************************************************)
C35_LevelIsMonotone ==
    LET Level(c, r) == CurrentThrottlingLevel(c, r, cpu_limit, ram_limit)
    IN  /\ Level(rc_cpu, rc_ram) \in 0 .. 3
        /\ Level(rc_cpu, rc_ram) = 0 <=> (rc_cpu <= cpu_limit /\ rc_ram <= ram_limit)
        /\ \A c \in Samples : c >= rc_cpu => Level(c, rc_ram) >= Level(rc_cpu, rc_ram)
        /\ \A r \in Samples : r >= rc_ram => Level(rc_cpu, r) >= Level(rc_cpu, rc_ram)
        /\ rc_pc = "sleep" => Holds(shared_state, "throttling_level", Level(rc_cpu, rc_ram))

\* Both readings severe: level 3 is published, as for one severe reading.
C35_Witness ==
    /\ rc_pc = "sleep"
    /\ rc_cpu > cpu_limit + SevereOffset
    /\ rc_ram > ram_limit + SevereOffset
    /\ Holds(shared_state, "throttling_level", 3)


(***************************************************************************)
(* C33: a probe that succeeds leaves last_error as it was.  No successful  *)
(* path of a connectivity check, of check_stack_health, of                 *)
(* check_vector_health, of send_bulk_to_opensearch or of                   *)
(* provision_opensearch_domain writes or removes last_error, so a          *)
(* readiness flag that is true again stands beside the message of the      *)
(* failure before it.                                                      *)
(***************************************************************************)
ProbeSucceeds ==
    \/ \E t \in Checks :
          /\ calls'[t] = calls[t] + 1
          /\ ReturnedTrue(last_outcome'[t])
    \/ dk_pc = "write" /\ dk_pc' = "returned" /\ dk_result' = "True"
    \/ vh_pc = "write" /\ vh_pc' = "returned" /\ vh_result' = "True"
    \/ sb_pc = "loop" /\ sb_calls' = sb_calls + 1 /\ sb_last' = "ok"
    \/ /\ aws_pc = "ready"
       /\ sb_pc \in {"idle", "returned"}
       /\ aws_op'.name \in {"send_bulk_to_opensearch", "provision_opensearch_domain"}
       /\ aws_op'.result = "True"

C33_SuccessLeavesLastError ==
    [][ProbeSucceeds
          => /\ ("last_error" \in DOMAIN shared_state') = ("last_error" \in DOMAIN shared_state)
             /\ "last_error" \in DOMAIN shared_state
                   => shared_state'["last_error"] = shared_state["last_error"]]_vars

\* Redis answered on the second attempt: redis_ready is true beside the error
\* message of the first attempt.
C33_Witness ==
    /\ status["redis"] = "returned"
    /\ ReturnedTrue(result["redis"])
    /\ calls["redis"] = 2
    /\ Holds(shared_state, "redis_ready", TRUE)
    /\ Holds(shared_state, "last_error", "Redis connectivity error: ConnectionRefusedError")


\* The lines lo+1 .. hi of `lines` that are well-formed alert events, in file order.
AlertLines(lines, lo, hi) ==
    IF hi <= lo
    THEN <<>>
    ELSE SelectSeq([i \in 1 .. (hi - lo) |-> lo + i], LAMBDA i : lines[i] = "alert")

IsPrefix(p, q) == Len(p) <= Len(q) /\ \A i \in 1 .. Len(p) : p[i] = q[i]

(***************************************************************************)
(* C36: after start() on an existing file, what tail_alerts has yielded is *)
(* at every moment a prefix of the alert lines appended after start(), in  *)
(* file order: nothing from before start(), nothing twice, nothing out of  *)
(* order, nothing skipped; when the generator is back at its loop test it  *)
(* has yielded every alert line up to the end of the file it read last;    *)
(* and a start() while running leaves the read position alone.             *)
(***************************************************************************)
C36_TailYieldsAppendedAlertsOnce ==
    /\ []((start_size = -1) => yielded = <<>>)
    /\ [](start_size >= 0 => IsPrefix(yielded, AlertLines(eve, start_size, Len(eve))))
    /\ []((ta_pc = "check" /\ ta_tell >= 0)
             => yielded = AlertLines(eve, start_size, ta_tell))
    /\ [][(sm_running /\ sm_starts' = sm_starts + 1)
             => (sm_running' /\ sm_position' = sm_position /\ start_size' = start_size)]_vars

\* An alert was in the file at start(); two alerts appended later, one of them after
\* a second start(), were yielded in order and the first line was not.
C36_Witness ==
    /\ eve = <<"alert", "alert", "flow", "alert">>
    /\ start_size = 1
    /\ sm_starts = 2
    /\ ta_pc = "check"
    /\ yielded = <<2, 4>>

(***************************************************************************)
(* C37: once stop() has returned, tail_alerts yields no further event,     *)
(* also when lines of the batch read before are still unprocessed.         *)
(***************************************************************************)
C37_NoYieldAfterStop ==
    sm_stopped => Len(yielded) = stop_len

(***************************************************************************)
(* C38: get_recent_alerts(limit) returns at most limit alerts of the file, *)
(* in file order, and they are the most recent ones: no alert line later   *)
(* than a returned one is missing, and a file with at least limit alerts   *)
(* gives exactly limit of them.                                            *)
(***************************************************************************)
C38_RecentAlertsAreTheLastLimit ==
    ra_pc = "returned" =>
        LET all == AlertLines(ra_file, 0, Len(ra_file))
            InAll(a) == \E j \in 1 .. Len(all) : all[j] = a
            InResult(a) == \E k \in 1 .. Len(ra_result) : ra_result[k] = a
        IN  /\ Len(ra_result) <= ra_limit
            /\ \A k \in 1 .. Len(ra_result) : InAll(ra_result[k])
            /\ \A k \in 2 .. Len(ra_result) : ra_result[k - 1] < ra_result[k]
            /\ \A j \in 1 .. Len(all) :
                  (\E k \in 1 .. Len(ra_result) : ra_result[k] < all[j]) => InResult(all[j])
            /\ Len(all) >= ra_limit => Len(ra_result) = ra_limit

====
